---------------------------- MODULE Spec2Model ----------------------------
(***************************************************************************)
(* Model of the floem-picker colour editor: the conversion functions of    *)
(* math.rs and color.rs, the reactive synchronization effects of           *)
(* color_editor.rs and the hex text field of inputs.rs.                    *)
(*                                                                         *)
(* Numbers.  The program computes with f64 values in 0.0 .. 1.0.  The      *)
(* model represents the value x by the integer nearest to x * One, where   *)
(* One = 30600 is a multiple of 255, 360 and 100, so every value a byte,   *)
(* a degree or a percent field can hold is represented exactly.  Each      *)
(* arithmetic operation rounds its result to the nearest representable     *)
(* value, as the floating-point operation does at its own resolution.      *)
(*                                                                         *)
(* Text.  A hex text is a sequence of character codes: 0..15 are the       *)
(* characters 0-9 and A-F, 16..21 are a-f, 22 is a letter that is no hex   *)
(* digit (G), 23 is the character #.                                       *)
(***************************************************************************)
EXTENDS Integers, Sequences, FiniteSets, TLC

\* The representation of 1.0.
One == 255 * 120

Abs(x) == IF x < 0 THEN -x ELSE x
Min2(x, y) == IF x < y THEN x ELSE y
Max2(x, y) == IF x > y THEN x ELSE y

\* n / d rounded to nearest, n >= 0, d > 0.
RDiv(n, d) == (n + (d \div 2)) \div d
\* n / d rounded to nearest, any sign of n.
SDiv(n, d) == IF n >= 0 THEN RDiv(n, d) ELSE -RDiv(-n, d)
\* The f64 product x * y and quotient x / y of two values.
Mul(x, y) == SDiv(x * y, One)
Quot(x, y) == SDiv(x * One, y)

\* x > m/1000 and x < m/1000 for a value x and a tolerance of m thousandths.
Gt(x, m) == x * 1000 > m * One
Lt(x, m) == x * 1000 < m * One

---------------------------------------------------------------------------
(* math.rs *)

hsb_to_rgb(hv, sv, vv) ==
    IF sv = 0 THEN <<vv, vv, vv>>
    ELSE LET h6 == (hv * 6) % (6 * One)
             i  == h6 \div One
             f  == h6 % One
             p  == Mul(vv, One - sv)
             q  == Mul(vv, One - Mul(sv, f))
             t  == Mul(vv, One - Mul(sv, One - f))
         IN  CASE i % 6 = 0 -> <<vv, t, p>>
               [] i % 6 = 1 -> <<q, vv, p>>
               [] i % 6 = 2 -> <<p, vv, t>>
               [] i % 6 = 3 -> <<p, q, vv>>
               [] i % 6 = 4 -> <<t, p, vv>>
               [] OTHER     -> <<vv, p, q>>

\* rgb_to_hsb without the sector offset of a hue whose largest channel is
\* green.
rgb_to_hsb_green_without_offset(rv, gv, bv) ==
    LET max   == Max2(Max2(rv, gv), bv)
        min   == Min2(Min2(rv, gv), bv)
        delta == max - min
        vv    == max
        sv    == IF max = 0 THEN 0 ELSE Quot(delta, max)
        hv    == IF delta = 0 THEN 0
                 ELSE IF max = rv THEN RDiv(Quot(gv - bv, delta) % (6 * One), 6)
                 ELSE IF max = gv THEN RDiv(Quot(bv - rv, delta) % (6 * One), 6)
                 ELSE RDiv(Quot(rv - gv, delta) + 4 * One, 6)
    IN  <<hv, sv, vv>>

rgb_to_hsb(rv, gv, bv) ==
    LET max   == Max2(Max2(rv, gv), bv)
        min   == Min2(Min2(rv, gv), bv)
        delta == max - min
        vv    == max
        sv    == IF max = 0 THEN 0 ELSE Quot(delta, max)
        hv    == IF delta = 0 THEN 0
                 ELSE IF max = rv THEN RDiv(Quot(gv - bv, delta) % (6 * One), 6)
                 ELSE IF max = gv THEN RDiv(Quot(bv - rv, delta) + 2 * One, 6)
                 ELSE RDiv(Quot(rv - gv, delta) + 4 * One, 6)
    IN  <<hv, sv, vv>>

hsl_to_hsb(hv, sh, lv) ==
    LET vv    == lv + Mul(sh, Min2(lv, One - lv))
        s_hsb == IF vv = 0 THEN 0 ELSE 2 * (One - Quot(lv, vv))
    IN  <<hv, s_hsb, vv>>

\* hsb_to_hsl that divides by the lightness also above 0.5.
hsb_to_hsl_divides_by_lightness(hv, s_hsb, vv) ==
    LET lv == RDiv(vv * (2 * One - s_hsb), 2 * One)
        sh == IF lv = 0 \/ lv = One THEN 0
              ELSE Quot(vv - lv, lv)
    IN  <<hv, sh, lv>>

hsb_to_hsl(hv, s_hsb, vv) ==
    LET lv == RDiv(vv * (2 * One - s_hsb), 2 * One)
        sh == IF lv = 0 \/ lv = One THEN 0
              ELSE Quot(vv - lv, Min2(lv, One - lv))
    IN  <<hv, sh, lv>>

\* Character helpers of the hex text functions.
IsHexDigit(c) == c \in 0..21
ToUpper(c) == IF c \in 16..21 THEN c - 6 ELSE c
DigitValue(c) == ToUpper(c)
Hash == 23

RECURSIVE trim_start_hash(_)
trim_start_hash(str) ==
    IF Len(str) > 0 /\ Head(str) = Hash THEN trim_start_hash(Tail(str)) ELSE str

AllHex(str) == \A k \in 1..Len(str) : IsHexDigit(str[k])
to_uppercase(str) == [k \in 1..Len(str) |-> ToUpper(str[k])]

FF == <<15, 15>>
Gray == <<8, 0, 8, 0, 8, 0, 15, 15>>

\* normalize_hex that hands an invalid text back instead of the gray default.
normalize_hex_keeps_invalid(str) ==
    LET stripped == trim_start_hash(str)
    IN  IF ~AllHex(stripped) THEN stripped
        ELSE CASE Len(stripped) = 3 ->
                    to_uppercase(<<stripped[1], stripped[1], stripped[2], stripped[2],
                                   stripped[3], stripped[3]>> \o FF)
               [] Len(stripped) = 6 -> to_uppercase(stripped) \o FF
               [] Len(stripped) = 8 -> to_uppercase(stripped)
               [] OTHER -> stripped

normalize_hex(str) ==
    LET stripped == trim_start_hash(str)
    IN  IF ~AllHex(stripped) THEN Gray
        ELSE CASE Len(stripped) = 3 ->
                    to_uppercase(<<stripped[1], stripped[1], stripped[2], stripped[2],
                                   stripped[3], stripped[3]>> \o FF)
               [] Len(stripped) = 6 -> to_uppercase(stripped) \o FF
               [] Len(stripped) = 8 -> to_uppercase(stripped)
               [] OTHER -> Gray

---------------------------------------------------------------------------
(* color.rs *)

None == [none |-> TRUE]

SolidColor(rv, gv, bv, av) == [r |-> rv, g |-> gv, b |-> bv, a |-> av]

\* (x * 255.0).round() as u8
ToByte(x) == LET n == RDiv(x * 255, One)
             IN  IF n > 255 THEN 255 ELSE IF n < 0 THEN 0 ELSE n
\* byte as f64 / 255.0
FromByte(n) == n * (One \div 255)

\* to_rgb that truncates the channels instead of rounding them.
to_rgb_truncating(c) ==
    <<Min2((Max2(c.r, 0) * 255) \div One, 255), Min2((Max2(c.g, 0) * 255) \div One, 255),
      Min2((Max2(c.b, 0) * 255) \div One, 255)>>

to_rgb(c) == <<ToByte(c.r), ToByte(c.g), ToByte(c.b)>>

Byte2(str, k) == 16 * DigitValue(str[k]) + DigitValue(str[k + 1])
Nibble(str, k) == DigitValue(str[k]) * 17

\* from_hex that reads a text without alpha digits as fully transparent.
from_hex_alpha_zero(str) ==
    LET stripped == trim_start_hash(str)
    IN  IF ~AllHex(stripped) THEN None
        ELSE CASE Len(stripped) = 3 ->
                    SolidColor(FromByte(Nibble(stripped, 1)), FromByte(Nibble(stripped, 2)),
                               FromByte(Nibble(stripped, 3)), 0)
               [] Len(stripped) = 6 ->
                    SolidColor(FromByte(Byte2(stripped, 1)), FromByte(Byte2(stripped, 3)),
                               FromByte(Byte2(stripped, 5)), 0)
               [] Len(stripped) = 8 ->
                    SolidColor(FromByte(Byte2(stripped, 1)), FromByte(Byte2(stripped, 3)),
                               FromByte(Byte2(stripped, 5)), FromByte(Byte2(stripped, 7)))
               [] OTHER -> None

from_hex(str) ==
    LET stripped == trim_start_hash(str)
    IN  IF ~AllHex(stripped) THEN None
        ELSE CASE Len(stripped) = 3 ->
                    SolidColor(FromByte(Nibble(stripped, 1)), FromByte(Nibble(stripped, 2)),
                               FromByte(Nibble(stripped, 3)), One)
               [] Len(stripped) = 6 ->
                    SolidColor(FromByte(Byte2(stripped, 1)), FromByte(Byte2(stripped, 3)),
                               FromByte(Byte2(stripped, 5)), One)
               [] Len(stripped) = 8 ->
                    SolidColor(FromByte(Byte2(stripped, 1)), FromByte(Byte2(stripped, 3)),
                               FromByte(Byte2(stripped, 5)), FromByte(Byte2(stripped, 7)))
               [] OTHER -> None

HexByte(n) == <<n \div 16, n % 16>>

\* to_hex without the rule for black.
to_hex_black_with_alpha(c) ==
    LET rgb      == to_rgb(c)
        rgbText  == HexByte(rgb[1]) \o HexByte(rgb[2]) \o HexByte(rgb[3])
    IN  IF Lt(Abs(c.a - One), 1) THEN rgbText
        ELSE rgbText \o HexByte(ToByte(c.a))

to_hex(c) ==
    LET rgb      == to_rgb(c)
        is_black == rgb[1] = 0 /\ rgb[2] = 0 /\ rgb[3] = 0
        rgbText  == HexByte(rgb[1]) \o HexByte(rgb[2]) \o HexByte(rgb[3])
    IN  IF Lt(Abs(c.a - One), 1) \/ is_black THEN rgbText
        ELSE rgbText \o HexByte(ToByte(c.a))

from_hsb(hv, sv, bv, av) ==
    LET rgb == hsb_to_rgb(hv, sv, bv) IN SolidColor(rgb[1], rgb[2], rgb[3], av)

to_hsb(c) == rgb_to_hsb(c.r, c.g, c.b)

from_rgba(rv, gv, bv, av) == SolidColor(rv, gv, bv, av)

from_rgb(rv, gv, bv) == SolidColor(FromByte(rv), FromByte(gv), FromByte(bv), One)

from_hsl(hv, sv, lv, av) ==
    LET hsb == hsl_to_hsb(hv, sv, lv)
        rgb == hsb_to_rgb(hsb[1], hsb[2], hsb[3])
    IN  SolidColor(rgb[1], rgb[2], rgb[3], av)

\* A call of a function with its arguments and the value it returned.
Call(fn, args, result) == [fn |-> fn, args |-> args, result |-> result]
NoCall == Call("none", <<>>, None)

\* A colour as a tuple and back (the form a suspended effect keeps it in).
Tup(c) == <<c.r, c.g, c.b, c.a>>
Col(t) == SolidColor(t[1], t[2], t[3], t[4])

---------------------------------------------------------------------------
(* color_editor.rs: the signals of color_editor and the reactive runtime    *)
(* that runs its effects.                                                   *)
(*                                                                          *)
(* RwSignal::set stores the value and then runs, one after the other and to *)
(* completion, every effect subscribed to the signal; an effect that itself *)
(* sets a signal is suspended at that statement until the effects of that   *)
(* signal have run.  `stack` is this call stack: a "notify" frame holds the *)
(* effects a set still has to run, an effect frame holds the position (pc)  *)
(* and the locals (loc) of a suspended effect.  The order in which the      *)
(* subscribers of one signal run is not fixed by the program (they are kept *)
(* in a hash map), so it is a nondeterministic choice.                      *)

VARIABLES
    color,          \* the owner's RwSignal<SolidColor>
    h, s, b, a,     \* HSB signals and alpha
    hex,            \* hex signal of the editor
    s_hsl, l,       \* HSL derived signals
    r, g, bl,       \* RGB derived signals
    hsl_from_hsb,   \* guard of the HSB -> HSL forward sync
    rgb_from_hsb,   \* guard of the HSB -> RGB forward sync
    text,           \* text signal of hex_input
    prev,           \* value kept by the "external color -> HSB" effect
    created,        \* effects created so far
    stack,          \* call stack of the reactive runtime
    ev,             \* the last external event
    pre,            \* the signals when the last external event arrived
    commits,        \* the number of external events so far
    steps,          \* the effect steps run since the last external event
    sliders,        \* the BrightnessSlider and the AlphaSlider views
    wheel,          \* the ColorWheel view
    blobs,          \* the number of blobs created so far (Blob::new numbers them)
    requests,       \* per view, its last paint-time requests for an image
    call            \* the last call of a function or handler and its result

signals == <<color, h, s, b, a, hex, s_hsl, l, r, g, bl, text>>
guards == <<hsl_from_hsb, rgb_from_hsb>>
editor == <<color, h, s, b, a, hex, s_hsl, l, r, g, bl, text,
            hsl_from_hsb, rgb_from_hsb, prev, created, stack, ev, pre, commits, steps>>
views == <<sliders, wheel, blobs, requests>>
vars == <<editor, views, call>>

\* The effects, in the order color_editor and hex_input create them.
EffectOrder == <<"hsb_color", "color_hsb", "hex_color", "hsb_hsl", "hsl_hsb",
                 "hsb_rgb", "rgb_hsb", "hex_text", "text_hex">>
Effects == {EffectOrder[k] : k \in 1..Len(EffectOrder)}

\* The effects that read each signal with a tracked get().
Subscribers(sig) ==
    CASE sig \in {"h", "s", "b"}   -> {"hsb_color", "hsb_hsl", "hsb_rgb"}
      [] sig = "a"                 -> {"hsb_color"}
      [] sig = "color"             -> {"color_hsb"}
      [] sig = "hex"               -> {"hex_color", "hex_text"}
      [] sig \in {"s_hsl", "l"}    -> {"hsl_hsb"}
      [] sig \in {"r", "g", "bl"}  -> {"rgb_hsb"}
      [] sig = "text"              -> {"text_hex"}

Notify(subs) == [eff |-> "notify", pc |-> 0, loc |-> <<>>, pend |-> subs]
Frame(e, pc, loc) == [eff |-> e, pc |-> pc, loc |-> loc, pend |-> {}]

Top == stack[Len(stack)]
Rest == SubSeq(stack, 1, Len(stack) - 1)

\* The stack depth and the number of effect steps per external event the
\* model explores; neither is ever reached.
MaxDepth == 20
MaxSteps == 120

\* A step of an effect, or of a handler resumed after a set it made.
Running ==
    /\ steps < MaxSteps
    /\ steps' = steps + 1
    /\ UNCHANGED <<created, ev, pre, commits, views, call>>

\* RwSignal::set: store the value, then run the subscribed effects.
Write(sig, val) ==
    /\ color' = IF sig = "color" THEN val ELSE color
    /\ h'     = IF sig = "h"     THEN val ELSE h
    /\ s'     = IF sig = "s"     THEN val ELSE s
    /\ b'     = IF sig = "b"     THEN val ELSE b
    /\ a'     = IF sig = "a"     THEN val ELSE a
    /\ hex'   = IF sig = "hex"   THEN val ELSE hex
    /\ s_hsl' = IF sig = "s_hsl" THEN val ELSE s_hsl
    /\ l'     = IF sig = "l"     THEN val ELSE l
    /\ r'     = IF sig = "r"     THEN val ELSE r
    /\ g'     = IF sig = "g"     THEN val ELSE g
    /\ bl'    = IF sig = "bl"    THEN val ELSE bl
    /\ text'  = IF sig = "text"  THEN val ELSE text

\* sig.set(val) by the code whose remaining frames are `base`; `cont` is the
\* frame of the code after the set (empty when the set is its last statement).
Set(base, cont, sig, val) ==
    /\ Len(base) + Len(cont) < MaxDepth
    /\ Write(sig, val)
    /\ stack' = base \o cont \o
                (IF Subscribers(sig) \cap created = {} THEN <<>>
                 ELSE <<Notify(Subscribers(sig) \cap created)>>)

\* The code returns without a further set.
Return(base) == UNCHANGED signals /\ stack' = base

\* Effect e is next to run for the set on top of the stack.
Starts(e) == stack # <<>> /\ Top.eff = "notify" /\ e \in Top.pend
AfterStart(e) ==
    IF Top.pend = {e} THEN Rest ELSE Append(Rest, [Top EXCEPT !.pend = @ \ {e}])
\* Effect e resumes at pc after a set it made.
Resumes(e, pc) == stack # <<>> /\ Top.eff = e /\ Top.pc = pc

Differs(c1, c2, m) ==
    \/ Gt(Abs(c1.r - c2.r), m)
    \/ Gt(Abs(c1.g - c2.g), m)
    \/ Gt(Abs(c1.b - c2.b), m)
    \/ Gt(Abs(c1.a - c2.a), m)

\* The comparison written with the wrong sign.
Within_wrong_sign(c1, c2, m) ==
    /\ Gt(Abs(c1.r - c2.r), m)
    /\ Gt(Abs(c1.g - c2.g), m)
    /\ Gt(Abs(c1.b - c2.b), m)
    /\ Gt(Abs(c1.a - c2.a), m)

Within(c1, c2, m) ==
    /\ Lt(Abs(c1.r - c2.r), m)
    /\ Lt(Abs(c1.g - c2.g), m)
    /\ Lt(Abs(c1.b - c2.b), m)
    /\ Lt(Abs(c1.a - c2.a), m)

\* HSB -> color (when any HSB component changes)
hsb_color ==
    /\ Running /\ UNCHANGED <<guards, prev>>
    /\ \/ /\ Starts("hsb_color")
          /\ LET new_color == from_hsb(h, s, b, a)
             IN  IF Differs(new_color, color, 1)
                 THEN Set(AfterStart("hsb_color"), <<Frame("hsb_color", 1, Tup(new_color))>>,
                          "color", new_color)
                 ELSE Return(AfterStart("hsb_color"))
       \/ /\ Resumes("hsb_color", 1)
          /\ LET new_hex == to_hex(Col(Top.loc))
             IN  IF hex # new_hex THEN Set(Rest, <<>>, "hex", new_hex)
                 ELSE Return(Rest)

\* External color -> HSB
\* The runtime hands the effect the value its last run returned and stores the
\* value this run returns.  The stored value is taken out for the duration of
\* a run, so a run nested in another run of this effect gets None, and the
\* value the outer run returns replaces the one a nested run stored.
color_hsb ==
    /\ Running /\ UNCHANGED guards
    /\ \/ /\ Starts("color_hsb")
          /\ LET c      == color
                 base   == AfterStart("color_hsb")
                 expect == from_hsb(h, s, b, a)
                 hsb    == to_hsb(c)
             IN  IF prev # None /\ Within(c, prev, 1)
                 THEN Return(base) /\ prev' = c
                 ELSE IF Within(expect, c, 5)
                 THEN IF hex # to_hex(c)
                      THEN /\ Set(base, <<Frame("color_hsb", 5, Tup(c))>>, "hex", to_hex(c))
                           /\ prev' = None
                      ELSE Return(base) /\ prev' = c
                 ELSE /\ prev' = None
                      /\ IF Gt(hsb[2], 1) /\ Gt(hsb[3], 1)
                         THEN Set(base, <<Frame("color_hsb", 1, Tup(c))>>, "h", hsb[1])
                         ELSE Set(base, <<Frame("color_hsb", 2, Tup(c))>>, "s", hsb[2])
       \/ /\ Resumes("color_hsb", 1)
          /\ Set(Rest, <<Frame("color_hsb", 2, Top.loc)>>, "s", to_hsb(Col(Top.loc))[2])
          /\ UNCHANGED prev
       \/ /\ Resumes("color_hsb", 2)
          /\ Set(Rest, <<Frame("color_hsb", 3, Top.loc)>>, "b", to_hsb(Col(Top.loc))[3])
          /\ UNCHANGED prev
       \/ /\ Resumes("color_hsb", 3)
          /\ Set(Rest, <<Frame("color_hsb", 4, Top.loc)>>, "a", Top.loc[4])
          /\ UNCHANGED prev
       \/ /\ Resumes("color_hsb", 4)
          /\ IF hex # to_hex(Col(Top.loc))
             THEN /\ Set(Rest, <<Frame("color_hsb", 5, Top.loc)>>, "hex", to_hex(Col(Top.loc)))
                  /\ UNCHANGED prev
             ELSE Return(Rest) /\ prev' = Col(Top.loc)
       \/ /\ Resumes("color_hsb", 5)
          /\ Return(Rest)
          /\ prev' = Col(Top.loc)

\* Hex -> color
hex_color ==
    /\ Running /\ UNCHANGED <<guards, prev>>
    /\ \/ /\ Starts("hex_color")
          /\ LET c    == from_hex(hex)
                 base == AfterStart("hex_color")
             IN  IF c = None THEN Return(base)
                 ELSE LET rgb_changed   == \/ Gt(Abs(c.r - color.r), 3)
                                           \/ Gt(Abs(c.g - color.g), 3)
                                           \/ Gt(Abs(c.b - color.b), 3)
                          alpha_changed == Gt(Abs(c.a - a), 4)
                          new_a         == IF alpha_changed THEN c.a ELSE a
                          new_color     == from_rgba(c.r, c.g, c.b, new_a)
                      IN  IF rgb_changed \/ alpha_changed
                          THEN Set(base, <<Frame("hex_color", 1,
                                                 Tup(new_color) \o <<IF alpha_changed THEN 1 ELSE 0>>)>>,
                                   "color", new_color)
                          ELSE Return(base)
       \/ /\ Resumes("hex_color", 1)
          /\ LET hsb == to_hsb(Col(Top.loc))
             IN  IF Gt(hsb[2], 1) /\ Gt(hsb[3], 1)
                 THEN Set(Rest, <<Frame("hex_color", 2, Top.loc)>>, "h", hsb[1])
                 ELSE Set(Rest, <<Frame("hex_color", 3, Top.loc)>>, "s", hsb[2])
       \/ /\ Resumes("hex_color", 2)
          /\ Set(Rest, <<Frame("hex_color", 3, Top.loc)>>, "s", to_hsb(Col(Top.loc))[2])
       \/ /\ Resumes("hex_color", 3)
          /\ Set(Rest, IF Top.loc[5] = 1 THEN <<Frame("hex_color", 4, Top.loc)>> ELSE <<>>,
                 "b", to_hsb(Col(Top.loc))[3])
       \/ /\ Resumes("hex_color", 4)
          /\ Set(Rest, <<>>, "a", Top.loc[4])

\* The forward sync written without clearing the guard flag at its end.
hsb_hsl_keeps_guard ==
    /\ Running /\ UNCHANGED <<rgb_from_hsb, prev>>
    /\ \/ /\ Starts("hsb_hsl")
          /\ LET hsl == hsb_to_hsl(h, s, b)
             IN  IF Gt(Abs(s_hsl - hsl[2]), 1) \/ Gt(Abs(l - hsl[3]), 1)
                 THEN /\ hsl_from_hsb' = TRUE
                      /\ Set(AfterStart("hsb_hsl"), <<Frame("hsb_hsl", 1, hsl)>>,
                             "s_hsl", hsl[2])
                 ELSE Return(AfterStart("hsb_hsl")) /\ UNCHANGED hsl_from_hsb
       \/ /\ Resumes("hsb_hsl", 1)
          /\ Set(Rest, <<Frame("hsb_hsl", 2, Top.loc)>>, "l", Top.loc[3])
          /\ UNCHANGED hsl_from_hsb
       \/ /\ Resumes("hsb_hsl", 2)
          /\ UNCHANGED hsl_from_hsb
          /\ Return(Rest)

\* HSB -> HSL display sync
hsb_hsl ==
    /\ Running /\ UNCHANGED <<rgb_from_hsb, prev>>
    /\ \/ /\ Starts("hsb_hsl")
          /\ LET hsl == hsb_to_hsl(h, s, b)
             IN  IF Gt(Abs(s_hsl - hsl[2]), 1) \/ Gt(Abs(l - hsl[3]), 1)
                 THEN /\ hsl_from_hsb' = TRUE
                      /\ Set(AfterStart("hsb_hsl"), <<Frame("hsb_hsl", 1, hsl)>>,
                             "s_hsl", hsl[2])
                 ELSE Return(AfterStart("hsb_hsl")) /\ UNCHANGED hsl_from_hsb
       \/ /\ Resumes("hsb_hsl", 1)
          /\ Set(Rest, <<Frame("hsb_hsl", 2, Top.loc)>>, "l", Top.loc[3])
          /\ UNCHANGED hsl_from_hsb
       \/ /\ Resumes("hsb_hsl", 2)
          /\ hsl_from_hsb' = FALSE
          /\ Return(Rest)

\* The back-sync written without the test of the guard flag.
hsl_hsb_unguarded ==
    /\ Running /\ UNCHANGED <<guards, prev>>
    /\ \/ /\ Starts("hsl_hsb")
          /\ LET base == AfterStart("hsl_hsb")
                 hsb  == hsl_to_hsb(h, s_hsl, l)
             IN  IF Gt(Abs(s - hsb[2]), 1)
                 THEN Set(base, <<Frame("hsl_hsb", 1, hsb)>>, "s", hsb[2])
                 ELSE IF Gt(Abs(b - hsb[3]), 1)
                 THEN Set(base, <<>>, "b", hsb[3])
                 ELSE Return(base)
       \/ /\ Resumes("hsl_hsb", 1)
          /\ IF Gt(Abs(b - Top.loc[3]), 1)
             THEN Set(Rest, <<>>, "b", Top.loc[3])
             ELSE Return(Rest)

\* The back-sync written without the write of the brightness.
hsl_hsb_saturation_only ==
    /\ Running /\ UNCHANGED <<guards, prev>>
    /\ Starts("hsl_hsb")
    /\ LET base == AfterStart("hsl_hsb")
           hsb  == hsl_to_hsb(h, s_hsl, l)
       IN  IF hsl_from_hsb THEN Return(base)
           ELSE IF Gt(Abs(s - hsb[2]), 1)
           THEN Set(base, <<>>, "s", hsb[2])
           ELSE Return(base)

\* HSL -> HSB back-sync (when HSL inputs change)
hsl_hsb ==
    /\ Running /\ UNCHANGED <<guards, prev>>
    /\ \/ /\ Starts("hsl_hsb")
          /\ LET base == AfterStart("hsl_hsb")
                 hsb  == hsl_to_hsb(h, s_hsl, l)
             IN  IF hsl_from_hsb THEN Return(base)
                 ELSE IF Gt(Abs(s - hsb[2]), 1)
                 THEN Set(base, <<Frame("hsl_hsb", 1, hsb)>>, "s", hsb[2])
                 ELSE IF Gt(Abs(b - hsb[3]), 1)
                 THEN Set(base, <<>>, "b", hsb[3])
                 ELSE Return(base)
       \/ /\ Resumes("hsl_hsb", 1)
          /\ IF Gt(Abs(b - Top.loc[3]), 1)
             THEN Set(Rest, <<>>, "b", Top.loc[3])
             ELSE Return(Rest)

\* HSB -> RGB display sync
hsb_rgb ==
    /\ Running /\ UNCHANGED <<hsl_from_hsb, prev>>
    /\ \/ /\ Starts("hsb_rgb")
          /\ LET n == hsb_to_rgb(h, s, b)
             IN  IF \/ Gt(Abs(r - n[1]), 2) \/ Gt(Abs(g - n[2]), 2) \/ Gt(Abs(bl - n[3]), 2)
                 THEN /\ rgb_from_hsb' = TRUE
                      /\ Set(AfterStart("hsb_rgb"), <<Frame("hsb_rgb", 1, n)>>, "r", n[1])
                 ELSE Return(AfterStart("hsb_rgb")) /\ UNCHANGED rgb_from_hsb
       \/ /\ Resumes("hsb_rgb", 1)
          /\ Set(Rest, <<Frame("hsb_rgb", 2, Top.loc)>>, "g", Top.loc[2])
          /\ UNCHANGED rgb_from_hsb
       \/ /\ Resumes("hsb_rgb", 2)
          /\ Set(Rest, <<Frame("hsb_rgb", 3, Top.loc)>>, "bl", Top.loc[3])
          /\ UNCHANGED rgb_from_hsb
       \/ /\ Resumes("hsb_rgb", 3)
          /\ rgb_from_hsb' = FALSE
          /\ Return(Rest)

\* The back-sync written without the test of the guard flag.
rgb_hsb_unguarded ==
    /\ Running /\ UNCHANGED <<guards, prev>>
    /\ \/ /\ Starts("rgb_hsb")
          /\ LET base == AfterStart("rgb_hsb")
                 n    == rgb_to_hsb(r, g, bl)
             IN  IF Gt(n[2], 1) /\ Gt(n[3], 1) /\ Gt(Abs(h - n[1]), 2)
                 THEN Set(base, <<Frame("rgb_hsb", 1, n)>>, "h", n[1])
                 ELSE IF Gt(Abs(s - n[2]), 2)
                 THEN Set(base, <<Frame("rgb_hsb", 2, n)>>, "s", n[2])
                 ELSE IF Gt(Abs(b - n[3]), 2)
                 THEN Set(base, <<>>, "b", n[3])
                 ELSE Return(base)
       \/ /\ Resumes("rgb_hsb", 1)
          /\ IF Gt(Abs(s - Top.loc[2]), 2)
             THEN Set(Rest, <<Frame("rgb_hsb", 2, Top.loc)>>, "s", Top.loc[2])
             ELSE IF Gt(Abs(b - Top.loc[3]), 2)
             THEN Set(Rest, <<>>, "b", Top.loc[3])
             ELSE Return(Rest)
       \/ /\ Resumes("rgb_hsb", 2)
          /\ IF Gt(Abs(b - Top.loc[3]), 2)
             THEN Set(Rest, <<>>, "b", Top.loc[3])
             ELSE Return(Rest)

\* The back-sync written without the test that saturation and brightness
\* both exceed 0.001 before the hue is overwritten.
rgb_hsb_always_hue ==
    /\ Running /\ UNCHANGED <<guards, prev>>
    /\ \/ /\ Starts("rgb_hsb")
          /\ LET base == AfterStart("rgb_hsb")
                 n    == rgb_to_hsb(r, g, bl)
             IN  IF rgb_from_hsb THEN Return(base)
                 ELSE IF Gt(Abs(h - n[1]), 2)
                 THEN Set(base, <<Frame("rgb_hsb", 1, n)>>, "h", n[1])
                 ELSE IF Gt(Abs(s - n[2]), 2)
                 THEN Set(base, <<Frame("rgb_hsb", 2, n)>>, "s", n[2])
                 ELSE IF Gt(Abs(b - n[3]), 2)
                 THEN Set(base, <<>>, "b", n[3])
                 ELSE Return(base)
       \/ /\ Resumes("rgb_hsb", 1)
          /\ IF Gt(Abs(s - Top.loc[2]), 2)
             THEN Set(Rest, <<Frame("rgb_hsb", 2, Top.loc)>>, "s", Top.loc[2])
             ELSE IF Gt(Abs(b - Top.loc[3]), 2)
             THEN Set(Rest, <<>>, "b", Top.loc[3])
             ELSE Return(Rest)
       \/ /\ Resumes("rgb_hsb", 2)
          /\ IF Gt(Abs(b - Top.loc[3]), 2)
             THEN Set(Rest, <<>>, "b", Top.loc[3])
             ELSE Return(Rest)

\* The back-sync written without the comparisons with the current HSB
\* signals: it writes whatever it computed.
rgb_hsb_always_writes ==
    /\ Running /\ UNCHANGED <<guards, prev>>
    /\ \/ /\ Starts("rgb_hsb")
          /\ LET base == AfterStart("rgb_hsb")
                 n    == rgb_to_hsb(r, g, bl)
             IN  IF rgb_from_hsb THEN Return(base)
                 ELSE IF Gt(n[2], 1) /\ Gt(n[3], 1)
                 THEN Set(base, <<Frame("rgb_hsb", 1, n)>>, "h", n[1])
                 ELSE Set(base, <<Frame("rgb_hsb", 2, n)>>, "s", n[2])
       \/ /\ Resumes("rgb_hsb", 1)
          /\ Set(Rest, <<Frame("rgb_hsb", 2, Top.loc)>>, "s", Top.loc[2])
       \/ /\ Resumes("rgb_hsb", 2)
          /\ Set(Rest, <<>>, "b", Top.loc[3])

\* RGB -> HSB back-sync (when RGB inputs change)
rgb_hsb ==
    /\ Running /\ UNCHANGED <<guards, prev>>
    /\ \/ /\ Starts("rgb_hsb")
          /\ LET base == AfterStart("rgb_hsb")
                 n    == rgb_to_hsb(r, g, bl)
             IN  IF rgb_from_hsb THEN Return(base)
                 ELSE IF Gt(n[2], 1) /\ Gt(n[3], 1) /\ Gt(Abs(h - n[1]), 2)
                 THEN Set(base, <<Frame("rgb_hsb", 1, n)>>, "h", n[1])
                 ELSE IF Gt(Abs(s - n[2]), 2)
                 THEN Set(base, <<Frame("rgb_hsb", 2, n)>>, "s", n[2])
                 ELSE IF Gt(Abs(b - n[3]), 2)
                 THEN Set(base, <<>>, "b", n[3])
                 ELSE Return(base)
       \/ /\ Resumes("rgb_hsb", 1)
          /\ IF Gt(Abs(s - Top.loc[2]), 2)
             THEN Set(Rest, <<Frame("rgb_hsb", 2, Top.loc)>>, "s", Top.loc[2])
             ELSE IF Gt(Abs(b - Top.loc[3]), 2)
             THEN Set(Rest, <<>>, "b", Top.loc[3])
             ELSE Return(Rest)
       \/ /\ Resumes("rgb_hsb", 2)
          /\ IF Gt(Abs(b - Top.loc[3]), 2)
             THEN Set(Rest, <<>>, "b", Top.loc[3])
             ELSE Return(Rest)

---------------------------------------------------------------------------
(* inputs.rs: hex_input *)

\* External hex_signal -> text (only update if not equivalent)
hex_text ==
    /\ Running /\ UNCHANGED <<guards, prev>>
    /\ Starts("hex_text")
    /\ LET current_normalized == to_uppercase(trim_start_hash(text))
       IN  IF current_normalized # hex
           THEN Set(AfterStart("hex_text"), <<>>, "text", hex)
           ELSE Return(AfterStart("hex_text"))

\* The keystroke effect forwarding a 3-digit shorthand as well.
text_hex_forwards_shorthand ==
    /\ Running /\ UNCHANGED <<guards, prev>>
    /\ Starts("text_hex")
    /\ LET trimmed == trim_start_hash(text)
           upper   == to_uppercase(trimmed)
       IN  IF (Len(trimmed) = 3 \/ Len(trimmed) = 6 \/ Len(trimmed) = 8)
              /\ AllHex(trimmed) /\ hex # upper
           THEN Set(AfterStart("text_hex"), <<>>, "hex", upper)
           ELSE Return(AfterStart("text_hex"))

\* Dynamic: text -> hex_signal on every valid keystroke
text_hex ==
    /\ Running /\ UNCHANGED <<guards, prev>>
    /\ Starts("text_hex")
    /\ LET trimmed == trim_start_hash(text)
           upper   == to_uppercase(trimmed)
       IN  IF (Len(trimmed) = 6 \/ Len(trimmed) = 8) /\ AllHex(trimmed) /\ hex # upper
           THEN Set(AfterStart("text_hex"), <<>>, "hex", upper)
           ELSE Return(AfterStart("text_hex"))

---------------------------------------------------------------------------
(* brightness_slider.rs, alpha_slider.rs, color_wheel.rs: the views that    *)
(* paint a rasterized image and keep the last one.  A view's update,        *)
(* compute_layout and paint are called by the framework, one at a time.     *)

Sliders == {"brightness", "alpha"}
Views == Sliders \cup {"wheel"}

WHEEL_RASTER_SIZE == 1024

\* (x * 255.0 + 0.5) as u8
KeyByte(x) == LET n == (x * 255 + One \div 2) \div One
              IN  IF n > 255 THEN 255 ELSE IF n < 0 THEN 0 ELSE n

\* ((1.0 - t) * x * 255.0 + 0.5) as u8 with t = px / (width - 1).max(1)
Fade(x, px, width) ==
    LET d == Max2(width - 1, 1)
        n == (2 * (d - px) * x * 255 + d * One) \div (2 * d * One)
    IN  IF n > 255 THEN 255 ELSE IF n < 0 THEN 0 ELSE n

\* The pixel buffers, as one row of RGBA columns: every row of a gradient is
\* the same.
rasterize_brightness_gradient(width, height, rv, gv, bv) ==
    [px \in 1..width |-> <<Fade(rv, px - 1, width), Fade(gv, px - 1, width),
                           Fade(bv, px - 1, width), 255>>]

\* rasterize_alpha_gradient that truncates the colour channels, without the
\* 0.5 the key adds.
rasterize_alpha_gradient_truncating(width, height, rv, gv, bv) ==
    [px \in 1..width |-> <<(rv * 255) \div One, (gv * 255) \div One, (bv * 255) \div One,
                           Fade(One, px - 1, width)>>]

rasterize_alpha_gradient(width, height, rv, gv, bv) ==
    [px \in 1..width |-> <<KeyByte(rv), KeyByte(gv), KeyByte(bv),
                           Fade(One, px - 1, width)>>]

\* The wheel's pixels depend on the raster size only.
rasterize_wheel_base(width, height) == <<"wheel", width, height>>

\* peniko::Image::new(blob, Format::Rgba8, width, height)
Image(pixels, width, height) == [pixels |-> pixels, width |-> width, height |-> height]

\* The views as their constructors return them.  The field value is the
\* brightness of the brightness slider and the alpha of the alpha slider.
brightness_slider(hue, saturation, brightness) ==
    LET rgb == hsb_to_rgb(hue, saturation, One)
    IN  [held |-> FALSE, value |-> brightness,
         base_r |-> rgb[1], base_g |-> rgb[2], base_b |-> rgb[3],
         size |-> <<0, 0>>, grad_img |-> None, grad_hash |-> <<>>,
         cached_color |-> <<0, 0, 0>>, cached_dims |-> <<0, 0>>]

alpha_slider ==
    [held |-> FALSE, value |-> One,
     base_r |-> One \div 2, base_g |-> One \div 2, base_b |-> One \div 2,
     size |-> <<0, 0>>, grad_img |-> None, grad_hash |-> <<>>,
     cached_color |-> <<0, 0, 0>>, cached_dims |-> <<0, 0>>]

color_wheel(hue, saturation, brightness) ==
    [held |-> FALSE,
     hue |-> hue, saturation |-> saturation, brightness |-> brightness,
     size |-> <<0, 0>>, wheel_img |-> None, wheel_hash |-> <<>>]

\* The number of blobs the model lets the views create.
MaxBlobs == 4

\* The base colours the effects of a slider send it.
BaseColors ==
    { <<One, 0, 0>>,                                        \* red
      <<One \div 2, One \div 2, One \div 2>>,               \* gray 0.5
      <<One \div 2 + 96, One \div 2 + 96, One \div 2 + 96>> } \* gray 0.503

\* The layout sizes of a slider and of the wheel, and the scales of the
\* window in halves (0.5, 1.0, 2.0).
SliderSizes == { <<0, 0>>, <<3, 16>>, <<4, 16>> }
WheelSizes == { <<0, 0>>, <<100, 100>>, <<120, 120>> }
Scales == {1, 2, 4}

\* (len * scale.max(1.0)).round() as u32
Physical(len, scale) == RDiv(len * Max2(scale, 2), 2)

color_key(sl) == <<KeyByte(sl.base_r), KeyByte(sl.base_g), KeyByte(sl.base_b)>>

\* The number of requests of a view the model remembers.
History == 3

\* The request a paint makes: the key it asks for, and after the call the
\* image and hash it draws and whether the call rasterized.  The model keeps
\* the last requests of each view.
Request(w, key, img, hash, rasterized) ==
    requests' = [requests EXCEPT ![w] =
                    (IF Len(@) < History THEN @ ELSE SubSeq(@, 2, Len(@))) \o
                    <<[key |-> key, img |-> img, hash |-> hash, rasterized |-> rasterized]>>]

\* The views share nothing but the numbering of the blobs, so the model
\* follows one view at a time: the framework calls view w while every other
\* view is as its constructor returned it and has not been painted.
Constructed(w) ==
    /\ requests[w] = <<>>
    /\ CASE w = "brightness" -> sliders[w] = brightness_slider(h, s, b)
         [] w = "alpha"      -> sliders[w] = alpha_slider
         [] w = "wheel"      -> wheel = color_wheel(h, s, b)
Only(w) == \A v \in Views \ {w} : Constructed(v)

\* The values the effects of a view send it.
Values == {0, One}
HueSats == { <<0, 0>>, <<One \div 3, One>> }

\* update rasterizing the gradient of the new base colour at once, at the
\* size of the image the slider holds.
slider_update_eager ==
    \E w \in Sliders :
        /\ Only(w)
        /\ \/ /\ \E val \in Values :
                    sliders' = [sliders EXCEPT ![w].value = val]
              /\ UNCHANGED blobs
           \/ \E c \in BaseColors :
                 LET dims == sliders[w].cached_dims
                     pixels == IF w = "brightness"
                               THEN rasterize_brightness_gradient(dims[1], dims[2], c[1], c[2], c[3])
                               ELSE rasterize_alpha_gradient(dims[1], dims[2], c[1], c[2], c[3])
                 IN  IF sliders[w].grad_img = None
                     THEN /\ sliders' = [sliders EXCEPT ![w].base_r = c[1], ![w].base_g = c[2],
                                                        ![w].base_b = c[3]]
                          /\ UNCHANGED blobs
                     ELSE /\ blobs < MaxBlobs
                          /\ blobs' = blobs + 1
                          /\ sliders' = [sliders EXCEPT
                                            ![w].base_r = c[1], ![w].base_g = c[2],
                                            ![w].base_b = c[3],
                                            ![w].grad_hash = <<blobs + 1>>,
                                            ![w].grad_img = Image(pixels, dims[1], dims[2]),
                                            ![w].cached_color =
                                                <<KeyByte(c[1]), KeyByte(c[2]), KeyByte(c[3])>>]
        /\ UNCHANGED <<editor, call, wheel, requests>>

\* BrightnessUpdate::Value / AlphaUpdate::Alpha and
\* BrightnessUpdate::BaseColor / AlphaUpdate::BaseColor
slider_update ==
    \E w \in Sliders :
        /\ Only(w)
        /\ \/ \E val \in Values :
                 sliders' = [sliders EXCEPT ![w].value = val]
           \/ \E c \in BaseColors :
                 sliders' = [sliders EXCEPT ![w].base_r = c[1], ![w].base_g = c[2],
                                           ![w].base_b = c[3]]
        /\ UNCHANGED <<editor, call, wheel, blobs, requests>>

\* WheelUpdate::HueSat and WheelUpdate::Brightness
wheel_update ==
    /\ Only("wheel")
    /\ \/ \E hs \in HueSats :
             wheel' = [wheel EXCEPT !.hue = hs[1], !.saturation = hs[2]]
       \/ \E val \in Values :
             wheel' = [wheel EXCEPT !.brightness = val]
    /\ UNCHANGED <<editor, call, sliders, blobs, requests>>

slider_compute_layout ==
    \E w \in Sliders : \E sz \in SliderSizes :
        /\ Only(w)
        /\ sliders' = [sliders EXCEPT ![w].size = sz]
        /\ UNCHANGED <<editor, call, wheel, blobs, requests>>

\* ensure_gradient_image written without the comparison with the stored key.
ensure_gradient_image_uncached(w, scale) ==
    LET sl     == sliders[w]
        pw     == Physical(sl.size[1], scale)
        ph     == Physical(sl.size[2], scale)
        key    == color_key(sl)
        dims   == <<pw, ph>>
        pixels == IF w = "brightness"
                  THEN rasterize_brightness_gradient(pw, ph, sl.base_r, sl.base_g, sl.base_b)
                  ELSE rasterize_alpha_gradient(pw, ph, sl.base_r, sl.base_g, sl.base_b)
    IN  IF pw = 0 \/ ph = 0
        THEN /\ UNCHANGED <<sliders, blobs>>
             /\ Request(w, <<key, dims>>, sl.grad_img, sl.grad_hash, FALSE)
        ELSE /\ blobs < MaxBlobs
             /\ blobs' = blobs + 1
             /\ sliders' = [sliders EXCEPT ![w].grad_hash = <<blobs + 1>>,
                                           ![w].grad_img = Image(pixels, pw, ph),
                                           ![w].cached_color = key,
                                           ![w].cached_dims = dims]
             /\ Request(w, <<key, dims>>, Image(pixels, pw, ph), <<blobs + 1>>, TRUE)

\* ensure_gradient_image comparing the stored colour only, not the stored size.
ensure_gradient_image_color_only(w, scale) ==
    LET sl     == sliders[w]
        pw     == Physical(sl.size[1], scale)
        ph     == Physical(sl.size[2], scale)
        key    == color_key(sl)
        dims   == <<pw, ph>>
        pixels == IF w = "brightness"
                  THEN rasterize_brightness_gradient(pw, ph, sl.base_r, sl.base_g, sl.base_b)
                  ELSE rasterize_alpha_gradient(pw, ph, sl.base_r, sl.base_g, sl.base_b)
    IN  IF pw = 0 \/ ph = 0
        THEN /\ UNCHANGED <<sliders, blobs>>
             /\ Request(w, <<key, dims>>, sl.grad_img, sl.grad_hash, FALSE)
        ELSE IF sl.cached_color = key /\ sl.grad_img # None
        THEN /\ UNCHANGED <<sliders, blobs>>
             /\ Request(w, <<key, dims>>, sl.grad_img, sl.grad_hash, FALSE)
        ELSE /\ blobs < MaxBlobs
             /\ blobs' = blobs + 1
             /\ sliders' = [sliders EXCEPT ![w].grad_hash = <<blobs + 1>>,
                                           ![w].grad_img = Image(pixels, pw, ph),
                                           ![w].cached_color = key,
                                           ![w].cached_dims = dims]
             /\ Request(w, <<key, dims>>, Image(pixels, pw, ph), <<blobs + 1>>, TRUE)

\* ensure_gradient_image comparing the stored size only, not the stored colour.
ensure_gradient_image_dims_only(w, scale) ==
    LET sl     == sliders[w]
        pw     == Physical(sl.size[1], scale)
        ph     == Physical(sl.size[2], scale)
        key    == color_key(sl)
        dims   == <<pw, ph>>
        pixels == IF w = "brightness"
                  THEN rasterize_brightness_gradient(pw, ph, sl.base_r, sl.base_g, sl.base_b)
                  ELSE rasterize_alpha_gradient(pw, ph, sl.base_r, sl.base_g, sl.base_b)
    IN  IF pw = 0 \/ ph = 0
        THEN /\ UNCHANGED <<sliders, blobs>>
             /\ Request(w, <<key, dims>>, sl.grad_img, sl.grad_hash, FALSE)
        ELSE IF sl.cached_dims = dims
        THEN /\ UNCHANGED <<sliders, blobs>>
             /\ Request(w, <<key, dims>>, sl.grad_img, sl.grad_hash, FALSE)
        ELSE /\ blobs < MaxBlobs
             /\ blobs' = blobs + 1
             /\ sliders' = [sliders EXCEPT ![w].grad_hash = <<blobs + 1>>,
                                           ![w].grad_img = Image(pixels, pw, ph),
                                           ![w].cached_color = key,
                                           ![w].cached_dims = dims]
             /\ Request(w, <<key, dims>>, Image(pixels, pw, ph), <<blobs + 1>>, TRUE)

\* ensure_gradient_image that stores the key it is asked for also when the
\* physical size is empty and nothing is rasterized.
ensure_gradient_image_records_empty(w, scale) ==
    LET sl     == sliders[w]
        pw     == Physical(sl.size[1], scale)
        ph     == Physical(sl.size[2], scale)
        key    == color_key(sl)
        dims   == <<pw, ph>>
        pixels == IF w = "brightness"
                  THEN rasterize_brightness_gradient(pw, ph, sl.base_r, sl.base_g, sl.base_b)
                  ELSE rasterize_alpha_gradient(pw, ph, sl.base_r, sl.base_g, sl.base_b)
    IN  IF pw = 0 \/ ph = 0
        THEN /\ UNCHANGED blobs
             /\ sliders' = [sliders EXCEPT ![w].cached_color = key,
                                           ![w].cached_dims = dims]
             /\ Request(w, <<key, dims>>, sl.grad_img, sl.grad_hash, FALSE)
        ELSE IF sl.cached_dims = dims /\ sl.cached_color = key
        THEN /\ UNCHANGED <<sliders, blobs>>
             /\ Request(w, <<key, dims>>, sl.grad_img, sl.grad_hash, FALSE)
        ELSE /\ blobs < MaxBlobs
             /\ blobs' = blobs + 1
             /\ sliders' = [sliders EXCEPT ![w].grad_hash = <<blobs + 1>>,
                                           ![w].grad_img = Image(pixels, pw, ph),
                                           ![w].cached_color = key,
                                           ![w].cached_dims = dims]
             /\ Request(w, <<key, dims>>, Image(pixels, pw, ph), <<blobs + 1>>, TRUE)

ensure_gradient_image(w, scale) ==
    LET sl     == sliders[w]
        pw     == Physical(sl.size[1], scale)
        ph     == Physical(sl.size[2], scale)
        key    == color_key(sl)
        dims   == <<pw, ph>>
        pixels == IF w = "brightness"
                  THEN rasterize_brightness_gradient(pw, ph, sl.base_r, sl.base_g, sl.base_b)
                  ELSE rasterize_alpha_gradient(pw, ph, sl.base_r, sl.base_g, sl.base_b)
    IN  IF pw = 0 \/ ph = 0
        THEN /\ UNCHANGED <<sliders, blobs>>
             /\ Request(w, <<key, dims>>, sl.grad_img, sl.grad_hash, FALSE)
        ELSE IF sl.cached_dims = dims /\ sl.cached_color = key
        THEN /\ UNCHANGED <<sliders, blobs>>
             /\ Request(w, <<key, dims>>, sl.grad_img, sl.grad_hash, FALSE)
        ELSE /\ blobs < MaxBlobs
             /\ blobs' = blobs + 1
             /\ sliders' = [sliders EXCEPT ![w].grad_hash = <<blobs + 1>>,
                                           ![w].grad_img = Image(pixels, pw, ph),
                                           ![w].cached_color = key,
                                           ![w].cached_dims = dims]
             /\ Request(w, <<key, dims>>, Image(pixels, pw, ph), <<blobs + 1>>, TRUE)

\* BrightnessSlider::paint returns before the image when the size is empty;
\* AlphaSlider::paint does not.
slider_paint ==
    \E w \in Sliders : \E scale \in Scales :
        /\ Only(w)
        /\ IF w = "brightness" /\ (sliders[w].size[1] = 0 \/ sliders[w].size[2] = 0)
           THEN UNCHANGED <<sliders, blobs, requests>>
           ELSE ensure_gradient_image(w, scale)
        /\ UNCHANGED <<editor, call, wheel>>

wheel_compute_layout ==
    \E sz \in WheelSizes :
        /\ Only("wheel")
        /\ wheel' = [wheel EXCEPT !.size = sz]
        /\ UNCHANGED <<editor, call, sliders, blobs, requests>>

\* ensure_wheel_image rasterizing again when the size is not the size of the
\* last paint.
ensure_wheel_image_resizing ==
    IF /\ wheel.wheel_img # None
       /\ requests["wheel"] # <<>>
       /\ requests["wheel"][Len(requests["wheel"])].key = wheel.size
    THEN UNCHANGED <<wheel, blobs>>
    ELSE LET size == WHEEL_RASTER_SIZE
             img  == Image(rasterize_wheel_base(size, size), size, size)
         IN  /\ blobs < MaxBlobs
             /\ blobs' = blobs + 1
             /\ wheel' = [wheel EXCEPT !.wheel_hash = <<"wheel">>, !.wheel_img = img]

ensure_wheel_image ==
    IF wheel.wheel_img # None
    THEN UNCHANGED <<wheel, blobs>>
    ELSE LET size == WHEEL_RASTER_SIZE
             img  == Image(rasterize_wheel_base(size, size), size, size)
         IN  /\ blobs < MaxBlobs
             /\ blobs' = blobs + 1
             /\ wheel' = [wheel EXCEPT !.wheel_hash = <<"wheel">>, !.wheel_img = img]

\* The opacity of the black overlay paint fills over the wheel, 0 when it
\* fills none.
Overlay(brightness) ==
    LET overlay_alpha == One - brightness
    IN  IF Gt(overlay_alpha, 1) THEN overlay_alpha ELSE 0

\* paint with a bitmap rasterized for the brightness: it rasterizes again
\* when the overlay is not the overlay of the last paint.
wheel_paint_baked ==
    /\ Only("wheel")
    /\ IF wheel.size[1] = 0 \/ wheel.size[2] = 0
       THEN UNCHANGED <<wheel, blobs, requests>>
       ELSE /\ IF /\ requests["wheel"] # <<>>
                  /\ requests["wheel"][Len(requests["wheel"])].overlay = Overlay(wheel.brightness)
               THEN UNCHANGED <<wheel, blobs>>
               ELSE /\ blobs < MaxBlobs
                    /\ blobs' = blobs + 1
                    /\ wheel' = [wheel EXCEPT
                          !.wheel_hash = <<blobs + 1>>,
                          !.wheel_img = Image(<<"wheel", wheel.brightness>>,
                                              WHEEL_RASTER_SIZE, WHEEL_RASTER_SIZE)]
            /\ requests' = [requests EXCEPT !["wheel"] =
                   (IF Len(@) < History THEN @ ELSE SubSeq(@, 2, Len(@))) \o
                   <<[key |-> wheel.size, img |-> wheel'.wheel_img,
                      hash |-> wheel'.wheel_hash, rasterized |-> blobs' # blobs,
                      overlay |-> Overlay(wheel.brightness)]>>]
    /\ UNCHANGED <<editor, call, sliders>>

\* The wheel's paint draws the image and then the overlay; the request
\* remembers both.
wheel_paint ==
    /\ Only("wheel")
    /\ IF wheel.size[1] = 0 \/ wheel.size[2] = 0
       THEN UNCHANGED <<wheel, blobs, requests>>
       ELSE /\ ensure_wheel_image
            /\ requests' = [requests EXCEPT !["wheel"] =
                   (IF Len(@) < History THEN @ ELSE SubSeq(@, 2, Len(@))) \o
                   <<[key |-> wheel.size, img |-> wheel'.wheel_img,
                      hash |-> wheel'.wheel_hash, rasterized |-> blobs' # blobs,
                      overlay |-> Overlay(wheel.brightness)]>>]
    /\ UNCHANGED <<editor, call, sliders>>

---------------------------------------------------------------------------
(* Mounting: color_editor initializes the signals from the owner's colour   *)
(* and creates the effects one by one; create_effect runs the new effect    *)
(* once.  hex_input reads the hex signal into its text when it is built,    *)
(* after the seven effects of color_editor.                                 *)

\* The initial colours the owner mounts the editor with.
InitColors ==
    { from_hex(<<8, 0, 8, 0, 8, 0>>),             \* 808080, opaque gray
      from_hex(<<3, 11, 8, 2, 15, 6, 8, 0>>),     \* 3B82F680, half transparent blue
      SolidColor(0, 0, 0, One \div 2) }           \* black, half transparent

Snapshot == [color |-> color, h |-> h, s |-> s, b |-> b, a |-> a, hex |-> hex,
             s_hsl |-> s_hsl, l |-> l, r |-> r, g |-> g, bl |-> bl, text |-> text,
             prev |-> prev, ev |-> ev]

Init ==
    \E c \in InitColors :
        LET hsb == to_hsb(c)
            hsl == hsb_to_hsl(hsb[1], hsb[2], hsb[3])
        IN  /\ color = c
            /\ h = hsb[1] /\ s = hsb[2] /\ b = hsb[3] /\ a = c.a
            /\ hex = to_hex(c)
            /\ s_hsl = hsl[2] /\ l = hsl[3]
            /\ r = c.r /\ g = c.g /\ bl = c.b
            /\ hsl_from_hsb = FALSE /\ rgb_from_hsb = FALSE
            /\ text = <<>>
            /\ prev = None
            /\ created = {}
            /\ stack = <<Frame("mount", 1, <<>>)>>
            /\ commits = 0
            /\ steps = 0
            /\ ev = [kind |-> "mount", sig |-> "color", val |-> Tup(c)]
            /\ pre = [color |-> c, h |-> hsb[1], s |-> hsb[2], b |-> hsb[3], a |-> c.a,
                      hex |-> to_hex(c), s_hsl |-> hsl[2], l |-> hsl[3],
                      r |-> c.r, g |-> c.g, bl |-> c.b, text |-> <<>>,
                      prev |-> None,
                      ev |-> [kind |-> "mount", sig |-> "color", val |-> Tup(c)]]
            /\ sliders = [w \in Sliders |->
                             IF w = "brightness"
                             THEN brightness_slider(hsb[1], hsb[2], hsb[3])
                             ELSE alpha_slider]
            /\ wheel = color_wheel(hsb[1], hsb[2], hsb[3])
            /\ blobs = 0
            /\ requests = [w \in Views |-> <<>>]
            /\ call = NoCall

Mount ==
    \E k \in 1..Len(EffectOrder) :
        /\ Resumes("mount", k)
        /\ created' = created \cup {EffectOrder[k]}
        /\ text' = IF EffectOrder[k] = "hex_text" THEN hex ELSE text
        /\ stack' = Rest \o (IF k < Len(EffectOrder) THEN <<Frame("mount", k + 1, <<>>)>>
                             ELSE <<>>)
                         \o <<Notify({EffectOrder[k]})>>
        /\ steps' = steps + 1
        /\ UNCHANGED <<color, h, s, b, a, hex, s_hsl, l, r, g, bl, guards, prev, ev, pre, commits>>
        /\ UNCHANGED <<views, call>>

\* No effect is running or waiting to run.
Quiescent == stack = <<>>

---------------------------------------------------------------------------
(* External events.  Each arrives when no effect is running.                *)

\* The number of external events the model follows.
MaxCommits == 2

Event(kind, sig, val) ==
    /\ commits < MaxCommits
    /\ commits' = commits + 1
    /\ steps' = 0
    /\ ev' = [kind |-> kind, sig |-> sig, val |-> val]
    /\ pre' = Snapshot
    /\ UNCHANGED <<guards, prev, created, views, call>>

\* The values the fields show for a signal: the display range of the field.
max_display(sig) ==
    CASE sig = "h" -> 360
      [] sig \in {"r", "g", "bl"} -> 255
      [] OTHER -> 100

SignalValue(sig) ==
    CASE sig = "h" -> h [] sig = "s" -> s [] sig = "b" -> b [] sig = "a" -> a
      [] sig = "s_hsl" -> s_hsl [] sig = "l" -> l
      [] sig = "r" -> r [] sig = "g" -> g [] sig = "bl" -> bl

\* The numbers typed into the numeric fields, in tenths: the field's text is
\* parsed as f64, so 127.4 is a number a user can commit.
Tenths == 10
Typed(sig) ==
    CASE sig = "h" -> {1200, 3600}
      [] sig = "s" -> {0, 1000}
      [] sig = "b" -> {0, 1000}
      [] sig = "a" -> {500, 1000}
      [] sig = "s_hsl" -> {500, 1000}
      [] sig = "l" -> {500, 1000}
      [] sig = "r" -> {0, 2550, 1274}
      [] sig = "g" -> {0, 2550}
      [] sig = "bl" -> {0}

\* (x * max).round() as i64
Display(x, max) == RDiv(x * max, One)

\* number_input / alpha_input: on_commit with a text that parses as num.
number_commit ==
    \E sig \in {"h", "s", "b", "a", "s_hsl", "l", "r", "g", "bl"} :
      \E num \in Typed(sig) :
        LET max         == max_display(sig) * Tenths
            clamped     == IF num < 0 THEN 0 ELSE IF num > max THEN max ELSE num
            new_display == RDiv(clamped, Tenths)
            old_display == Display(SignalValue(sig), max_display(sig))
        IN  /\ Quiescent
            /\ new_display # old_display
            /\ Event("number", sig, <<(clamped * One) \div max>>)
            /\ Set(<<>>, <<>>, sig, (clamped * One) \div max)

\* The points the pointer presses on the wheel, as (hue, saturation).
WheelPoints == { <<One \div 3, One>>, <<(3 * One) \div 4, 0>> }

\* color_wheel: PointerDown / PointerMove while held; on_change sets the hue
\* and then the saturation.
wheel_pointer ==
    \/ \E p \in WheelPoints :
          /\ Quiescent
          /\ Event("wheel", "h", p)
          /\ Set(<<>>, <<Frame("wheel", 1, p)>>, "h", p[1])
    \/ /\ Resumes("wheel", 1)
       /\ Set(Rest, <<>>, "s", Top.loc[2])
       /\ Running /\ UNCHANGED <<guards, prev>>

\* brightness_slider / alpha_slider: on_change sets the signal to the pointer's value.
SliderPoints(sig) == IF sig = "b" THEN {0} ELSE {One \div 4}

slider_pointer ==
    \E sig \in {"b", "a"} : \E v \in SliderPoints(sig) :
        /\ Quiescent
        /\ Event("slider", sig, <<v>>)
        /\ Set(<<>>, <<>>, sig, v)

\* The texts typed into the hex field.
HexTexts ==
    { <<15, 0, 8>>,                         \* F08
      <<16 + 5, 16 + 5, 0, 0, 0, 0>>,       \* ff0000
      <<Hash, 3, 11, 8, 2, 15, 6, 8, 0>>,   \* #3B82F680
      <<1, 2, 22, 4, 5, 6>>,                \* 12G456
      <<10, 11>>,                           \* AB
      <<15, 15, 0, 0, 0, 0, 15, 15>> }      \* FF0000FF

\* text_input: a keystroke replaces the text of the hex field.
hex_type ==
    \E str \in HexTexts :
        /\ Quiescent
        /\ text # str
        /\ Event("hex_type", "text", str)
        /\ Set(<<>>, <<>>, "text", str)

\* hex_input: on_commit (Enter or focus lost).
hex_commit ==
    \/ /\ Quiescent
       /\ Event("hex_commit", "text", text)
       /\ LET normalized == normalize_hex(text)
          IN  IF text # normalized
              THEN Set(<<>>, <<Frame("hex_commit", 1, normalized)>>, "text", normalized)
              ELSE IF hex # normalized
              THEN Set(<<>>, <<>>, "hex", normalized)
              ELSE Return(<<>>)
    \/ /\ Resumes("hex_commit", 1)
       /\ Running /\ UNCHANGED <<guards, prev>>
       /\ IF hex # Top.loc THEN Set(Rest, <<>>, "hex", Top.loc) ELSE Return(Rest)

\* The colours the owner sets from outside.
ExternalColors ==
    { SolidColor(One, 0, 0, One),                               \* opaque red
      SolidColor(One \div 2, One \div 2, One \div 2, One \div 2), \* gray, half transparent
      SolidColor(0, 0, 0, FromByte(128)),                         \* black, alpha 128/255
      SolidColor(One \div 2 - 15, One \div 2 - 15, One \div 2 - 15, One \div 2),
                                            \* gray 0.4995, half transparent
      SolidColor(One \div 2, One \div 2, One \div 2, One \div 2 + 138) }
                                            \* gray 0.5, alpha 0.5045

\* The owner sets the colour signal.
external_set ==
    \E c \in ExternalColors :
        /\ Quiescent
        /\ Event("external", "color", Tup(c))
        /\ Set(<<>>, <<>>, "color", c)

Propagate ==
    \/ Mount
    \/ hsb_color \/ color_hsb \/ hex_color
    \/ hsb_hsl \/ hsl_hsb \/ hsb_rgb \/ rgb_hsb
    \/ hex_text \/ text_hex

Next ==
    \/ Propagate
    \/ number_commit \/ wheel_pointer \/ slider_pointer
    \/ hex_type \/ hex_commit \/ external_set

Spec == Init /\ [][Next]_vars

\* The views of an editor mounted with opaque gray, updated, laid out and
\* painted by the framework.
PaintInit == Init /\ color = from_hex(<<8, 0, 8, 0, 8, 0>>)

PaintNext ==
    \/ slider_update \/ slider_compute_layout \/ slider_paint
    \/ wheel_update \/ wheel_compute_layout \/ wheel_paint

PaintSpec == PaintInit /\ [][PaintNext]_vars

---------------------------------------------------------------------------
(* The pointer events of the views: event_before_children of the sliders   *)
(* and of the wheel.  The framework lays a view out and sends it events;   *)
(* a call keeps the event, the arguments the handler passed to on_change   *)
(* and the propagation it returned.  The signal writes of on_change are    *)
(* the operations slider_pointer and wheel_pointer of the editor.          *)

THUMB_RADIUS == 7

\* The layout sizes of a slider wide enough for its thumb to travel, and
\* the positions of the pointer on it and around it.
TrackSizes == { <<0, 0>>, <<14, 16>>, <<114, 16>> }
TrackPositions == { <<x, 8>> : x \in {-20, 7, 32, 57, 107, 500} }

\* The positions of the pointer on the wheel and around it: on the axes and
\* the diagonals through the centre of either size of the wheel.
WheelPositions ==
    { <<50, 50>>, <<60, 60>>, <<0, 0>>, <<200, 200>>, <<75, 75>>,
      <<50, 60>>, <<60, 50>>, <<40, 60>>, <<60, 40>> }

\* The events a view is sent at the positions given.
Events(positions) ==
    { [kind |-> k, pos |-> p] : k \in {"PointerDown", "PointerMove", "PointerUp"},
                                p \in positions }
    \cup { [kind |-> k, pos |-> <<>>] : k \in {"FocusLost", "KeyDown"} }

track_compute_layout ==
    \E w \in Sliders : \E sz \in TrackSizes :
        /\ Only(w)
        /\ sliders' = [sliders EXCEPT ![w].size = sz]
        /\ UNCHANGED <<editor, call, wheel, blobs, requests>>

\* x.clamp(0.0, 1.0)
clamp_unit(x) == Min2(Max2(x, 0), One)

slider_update_from_pointer(sl, x) ==
    LET width == sl.size[1]
        usable == width - 2 * THUMB_RADIUS
    IN  IF usable > 0
        THEN [sl EXCEPT !.value =
                 One - clamp_unit(((x - THUMB_RADIUS) * One) \div usable)]
        ELSE sl

\* What a handler leaves: the view, the arguments of the calls of on_change
\* and the propagation returned.
Handled(view, calls, propagation) ==
    [self |-> view, on_change |-> calls, propagation |-> propagation]

\* event_before_children of a slider moving its thumb without being held.
slider_event_before_children_unheld(sl, event) ==
    CASE event.kind \in {"PointerDown", "PointerMove"} ->
            LET moved == slider_update_from_pointer(
                             [sl EXCEPT !.held = (event.kind = "PointerDown") \/ @],
                             event.pos[1])
            IN  Handled(moved, << <<moved.value>> >>, "Stop")
      [] event.kind \in {"PointerUp", "FocusLost"} ->
            Handled([sl EXCEPT !.held = FALSE], <<>>, "Continue")
      [] OTHER -> Handled(sl, <<>>, "Continue")

slider_event_before_children(sl, event) ==
    CASE event.kind = "PointerDown" ->
            LET moved == slider_update_from_pointer([sl EXCEPT !.held = TRUE],
                                                    event.pos[1])
            IN  Handled(moved, << <<moved.value>> >>, "Stop")
      [] event.kind = "PointerMove" ->
            IF sl.held
            THEN LET moved == slider_update_from_pointer(sl, event.pos[1])
                 IN  Handled(moved, << <<moved.value>> >>, "Stop")
            ELSE Handled(sl, <<>>, "Continue")
      [] event.kind \in {"PointerUp", "FocusLost"} ->
            Handled([sl EXCEPT !.held = FALSE], <<>>, "Continue")
      [] OTHER -> Handled(sl, <<>>, "Continue")

slider_event ==
    \E w \in Sliders : \E event \in Events(TrackPositions) :
        LET done == slider_event_before_children(sliders[w], event)
        IN  /\ Only(w)
            /\ sliders' = [sliders EXCEPT ![w] = done.self]
            /\ call' = Call("event_before_children", <<w, event>>,
                            [on_change |-> done.on_change,
                             propagation |-> done.propagation])
            /\ UNCHANGED <<editor, wheel, blobs, requests>>

\* The wheel is laid out with even sides, so its centre and radius are whole.
side(wh) == Min2(wh.size[1], wh.size[2])
radius(wh) == side(wh) \div 2
center(wh) == <<wh.size[1] \div 2, wh.size[2] \div 2>>

\* The largest root with root * root <= n, between lo and hi.
RECURSIVE isqrt(_, _, _)
isqrt(n, lo, hi) ==
    IF lo >= hi THEN lo
    ELSE LET mid == (lo + hi + 1) \div 2
         IN  IF mid * mid <= n THEN isqrt(n, mid, hi) ELSE isqrt(n, lo, mid - 1)

\* (dx * dx + dy * dy).sqrt(), to the hundredth
sqrt(n) == (One \div 100) * isqrt(n * 10000, 0, 30000)

\* dy.atan2(dx) / TAU for a pointer on an axis or a diagonal through the
\* centre: -0.5 to 0.5, y growing downwards.
atan2_turns(dy, dx) ==
    CASE dy = 0 /\ dx >= 0  -> 0
      [] dy = 0 /\ dx < 0   -> One \div 2
      [] dx = 0 /\ dy > 0   -> One \div 4
      [] dx = 0 /\ dy < 0   -> 0 - (One \div 4)
      [] dx = dy /\ dx > 0  -> One \div 8
      [] dx = dy /\ dx < 0  -> 0 - ((3 * One) \div 8)
      [] dx = 0 - dy /\ dx > 0 -> 0 - (One \div 8)
      [] dx = 0 - dy /\ dx < 0 -> (3 * One) \div 8

wheel_update_from_pointer(wh, pos) ==
    LET c == center(wh)
        max_r == radius(wh)
        dx == pos[1] - c[1]
        dy == pos[2] - c[2]
        dist == sqrt(dx * dx + dy * dy)
        sat == clamp_unit(dist \div max_r)
        turns == atan2_turns(dy, dx)
    IN  IF max_r <= 0
        THEN wh
        ELSE [wh EXCEPT !.hue = IF turns < 0 THEN turns + One ELSE turns,
                        !.saturation = sat]

wheel_event_before_children(wh, event) ==
    CASE event.kind = "PointerDown" ->
            LET moved == wheel_update_from_pointer([wh EXCEPT !.held = TRUE],
                                                   event.pos)
            IN  Handled(moved, << <<moved.hue, moved.saturation>> >>, "Stop")
      [] event.kind = "PointerMove" ->
            IF wh.held
            THEN LET moved == wheel_update_from_pointer(wh, event.pos)
                 IN  Handled(moved, << <<moved.hue, moved.saturation>> >>, "Stop")
            ELSE Handled(wh, <<>>, "Continue")
      [] event.kind \in {"PointerUp", "FocusLost"} ->
            Handled([wh EXCEPT !.held = FALSE], <<>>, "Continue")
      [] OTHER -> Handled(wh, <<>>, "Continue")

wheel_event ==
    \E event \in Events(WheelPositions) :
        LET done == wheel_event_before_children(wheel, event)
        IN  /\ Only("wheel")
            /\ wheel' = done.self
            /\ call' = Call("event_before_children", <<"wheel", event>>,
                            [on_change |-> done.on_change,
                             propagation |-> done.propagation])
            /\ UNCHANGED <<editor, sliders, blobs, requests>>

PointerNext ==
    \/ slider_update \/ track_compute_layout \/ slider_event
    \/ wheel_update \/ wheel_compute_layout \/ wheel_event

PointerSpec == PaintInit /\ [][PointerNext]_vars

---------------------------------------------------------------------------
(* color.rs as a library: SolidColor is a public type, and its constructors *)
(* and to_hex are called with the arguments the caller chooses.  The        *)
(* conversions of math.rs and the commit handlers of the numeric fields of   *)
(* inputs.rs are called the same way.                                       *)

\* The bytes, the f64 values and the texts the functions are called with.
\* One \div 510 is half an 8-bit step; 59 and 61 are just below and above
\* it; One - 30 is within 0.001 of 1.0 and One - 31 is not.
Bytes == {0, 1, 128, 255}
Floats == {0, 59, 61, One \div 2, One, (3 * One) \div 2}
Alphas == {0, One \div 2, One - 31, One - 30, One}
Hues == {0, One \div 3, (5 * One) \div 6}
Unit == {0, One \div 2, One}
Texts ==
    { <<>>,                                 \* the empty text
      <<Hash>>,                             \* #
      <<15, 0, 8>>,                         \* F08
      <<Hash, 15, 0, 8>>,                   \* #F08
      <<Hash, Hash, 15, 0, 8>>,             \* ##F08
      <<15, 15, 0, 0, 8, 8>>,               \* FF0088
      <<16 + 5, 16 + 5, 0, 0, 8, 8>>,       \* ff0088
      <<3, 11, 8, 2, 15, 6>>,               \* 3B82F6
      <<Hash, 3, 11, 8, 2, 15, 6, 8, 0>>,   \* #3B82F680
      <<3, 11, 8, 2, 15, 6, 8, 0>>,         \* 3B82F680
      <<0, 0, 0, 0, 0, 0, 8, 0>>,           \* 00000080
      <<1, 2, 22, 4, 5, 6>>,                \* 12G456
      <<1, 2, 3, Hash>>,                    \* 123#
      <<10, 11>>,                           \* AB
      <<1, 2, 3, 4>>,                       \* 1234
      <<1, 2, 3, 4, 5>>,                    \* 12345
      <<1, 2, 3, 4, 5, 6, 7>>,              \* 1234567
      <<1, 2, 3, 4, 5, 6, 7, 8, 9>> }       \* 123456789

\* The hues, saturations and values hsb_to_rgb is called with: the sector
\* borders of the hue circle, hues one step off a border, and the largest
\* hue below 1.0.
HsbHues == {0, 1, One \div 6 - 1, One \div 6, One \div 3, One \div 2 + 7,
            (5 * One) \div 6, One - 1}
HsbSats == {0, One \div 20, One \div 2, One}
HsbVals == {0, One \div 2, One - 31, One}

call_hsb_to_rgb ==
    /\ \E hv \in HsbHues, sv \in HsbSats, vv \in HsbVals :
           call' = Call("hsb_to_rgb", <<hv, sv, vv>>, hsb_to_rgb(hv, sv, vv))
    /\ UNCHANGED <<editor, views>>

\* rgb_to_hsb of pure red, or of the channels hsb_to_rgb has returned.
call_rgb_to_hsb ==
    /\ \E rgb \in {<<One, 0, 0>>} \cup
                  (IF call.fn = "hsb_to_rgb" THEN {call.result} ELSE {}) :
           call' = Call("rgb_to_hsb", rgb, rgb_to_hsb(rgb[1], rgb[2], rgb[3]))
    /\ UNCHANGED <<editor, views>>

\* The HSL saturations and the lightnesses hsl_to_hsb is called with; 1 and
\* One - 1 are the smallest lightness above 0.0 and the largest below 1.0.
HslSats == {0, One \div 20, One \div 2, One}
Lights == {0, 1, One \div 10, One \div 2, (9 * One) \div 10, One - 1, One}

call_hsl_to_hsb ==
    /\ \E hv \in Hues, sv \in HslSats, lv \in Lights :
           call' = Call("hsl_to_hsb", <<hv, sv, lv>>, hsl_to_hsb(hv, sv, lv))
    /\ UNCHANGED <<editor, views>>

\* hsb_to_hsl of chosen arguments, or of the triple hsl_to_hsb has returned.
call_hsb_to_hsl ==
    /\ \E hsb \in (Hues \X HslSats \X Lights) \cup
                  (IF call.fn = "hsl_to_hsb" THEN {call.result} ELSE {}) :
           call' = Call("hsb_to_hsl", hsb, hsb_to_hsl(hsb[1], hsb[2], hsb[3]))
    /\ UNCHANGED <<editor, views>>

\* inputs.rs: the numeric fields.  An f64 a field computes with is a number
\* in tenths of a display unit, an infinity or NaN.
Num(tenths) == [ok |-> TRUE, nan |-> FALSE, inf |-> 0, tenths |-> tenths]
Inf(sign) == [ok |-> TRUE, nan |-> FALSE, inf |-> sign, tenths |-> 0]
NaN == [ok |-> TRUE, nan |-> TRUE, inf |-> 0, tenths |-> 0]
Err == [ok |-> FALSE, nan |-> FALSE, inf |-> 0, tenths |-> 0]

\* str::parse::<f64> of the texts a user types into a numeric field: it
\* reads decimal numbers, "inf" and "NaN", and fails on an empty text, on
\* letters and on surrounding spaces.
NumberTexts == {"50", "127.4", "0", "400", "-5", "100", "", "abc", " 50", "NaN", "inf"}
parse_f64(raw) ==
    CASE raw = "50"    -> Num(500)
      [] raw = "127.4" -> Num(1274)
      [] raw = "0"     -> Num(0)
      [] raw = "400"   -> Num(4000)
      [] raw = "-5"    -> Num(-50)
      [] raw = "100"   -> Num(1000)
      [] raw = "NaN"   -> NaN
      [] raw = "inf"   -> Inf(1)
      [] OTHER         -> Err

\* str::trim
trim(raw) == IF raw = " 50" THEN "50" ELSE raw

\* f64::clamp(0.0, max): NaN stays NaN.
clamp(num, max) ==
    IF num.nan THEN NaN
    ELSE IF num.inf > 0 THEN Num(max * Tenths)
    ELSE IF num.inf < 0 THEN Num(0)
    ELSE Num(Max2(0, Min2(num.tenths, max * Tenths)))

\* x.round() as i64: the cast of NaN is 0.
round_i64(num) == IF num.nan THEN 0 ELSE SDiv(num.tenths, Tenths)

\* What a commit does: the value it sets the signal to, if it sets it (the
\* value is NaN, or v), and the text of the field after it.
Committed(set, nan, v, txt) == [set |-> set, nan |-> nan, v |-> v, text |-> txt]

\* on_commit of number_input and of alpha_input with the field's text raw,
\* the text it parses (alpha_input trims it) and the value of the signal.
on_commit(raw, trimmed, value, max) ==
    LET num == parse_f64(trimmed)
    IN  IF num.ok
        THEN LET clamped     == clamp(num, max)
                 new_display == round_i64(clamped)
                 old_display == Display(value, max)
                 formatted   == ToString(new_display)
             IN  Committed(new_display # old_display, clamped.nan,
                           IF clamped.nan THEN 0
                           ELSE (clamped.tenths * One) \div (max * Tenths),
                           IF trimmed # formatted THEN formatted ELSE raw)
        ELSE LET formatted == ToString(Display(value, max))
             IN  Committed(FALSE, FALSE, 0, IF raw # formatted THEN formatted ELSE raw)

\* The display ranges (max_display) of the fields: percent, byte, degrees.
MaxDisplays == {100, 255, 360}

call_number_commit ==
    /\ \E raw \in NumberTexts, value \in Unit, max \in MaxDisplays :
           call' = Call("number_input", <<raw, value, max>>,
                        on_commit(raw, raw, value, max))
    /\ UNCHANGED <<editor, views>>

call_alpha_commit ==
    /\ \E raw \in NumberTexts, value \in Unit :
           call' = Call("alpha_input", <<raw, value, 100>>,
                        on_commit(raw, trim(raw), value, 100))
    /\ UNCHANGED <<editor, views>>

call_from_rgb ==
    /\ \E rv \in Bytes, gv \in Bytes, bv \in Bytes :
           call' = Call("from_rgb", <<rv, gv, bv>>, from_rgb(rv, gv, bv))
    /\ UNCHANGED <<editor, views>>

call_from_hsb ==
    /\ \E hv \in Hues, sv \in Unit, bv \in Unit, av \in Unit :
           call' = Call("from_hsb", <<hv, sv, bv, av>>, from_hsb(hv, sv, bv, av))
    /\ UNCHANGED <<editor, views>>

call_from_hsl ==
    /\ \E hv \in Hues, sv \in Unit, lv \in Unit, av \in Unit :
           call' = Call("from_hsl", <<hv, sv, lv, av>>, from_hsl(hv, sv, lv, av))
    /\ UNCHANGED <<editor, views>>

call_from_rgba ==
    /\ \E rv \in Floats, gv \in Floats, bv \in Floats, av \in Alphas :
           call' = Call("from_rgba", <<rv, gv, bv, av>>, from_rgba(rv, gv, bv, av))
    /\ UNCHANGED <<editor, views>>

call_from_hex ==
    /\ \E str \in Texts :
           call' = Call("from_hex", <<str>>, from_hex(str))
    /\ UNCHANGED <<editor, views>>

\* to_hex of a colour a constructor has returned.
call_to_hex ==
    /\ call.fn \in {"from_rgb", "from_hsb", "from_hsl", "from_rgba", "from_hex"}
    /\ call.result # None
    /\ call' = Call("to_hex", <<call.result>>, to_hex(call.result))
    /\ UNCHANGED <<editor, views>>

ColorNext ==
    \/ call_from_rgb \/ call_from_hsb \/ call_from_hsl
    \/ call_from_rgba \/ call_from_hex \/ call_to_hex
    \/ call_hsb_to_rgb \/ call_rgb_to_hsb
    \/ call_hsl_to_hsb \/ call_hsb_to_hsl
    \/ call_number_commit \/ call_alpha_commit

ColorSpec == PaintInit /\ [][ColorNext]_vars

\* ---------------------------------------------------------------------
\* Properties
\* ---------------------------------------------------------------------

\* Every effect has been created and none is running or waiting to run.
Settled == Quiescent /\ created = Effects

\* |x - y| <= m / 1000
Close(x, y, m) == ~Gt(Abs(x - y), m)

\* C1: a commit on any view, or an external change of the colour, is followed
\* by finitely many effect runs: the propagation never reaches the model's
\* limits on the number of steps or on the depth of nested runs, and whenever
\* it has not yet settled a further step is possible.
C1_Terminates ==
    /\ steps < MaxSteps
    /\ Len(stack) < MaxDepth
    /\ ~Quiescent => ENABLED Next

\* An external change of the colour that took a long propagation and settled.
C1_Witness == Settled /\ ev.kind = "external" /\ steps >= 40


\* The views of the engine, now and when the last event arrived.
Engine == <<color, h, s, b, a, s_hsl, l, r, g, bl>>
PreEngine == <<pre.color, pre.h, pre.s, pre.b, pre.a, pre.s_hsl, pre.l, pre.r, pre.g, pre.bl>>

\* C2: in every settled state the colour agrees with the HSB signals and the
\* alpha signal: each channel of hsb_to_rgb(h, s, b) is within 0.005 of the
\* colour's channel, and the alpha signal is within 0.005 of the colour's alpha.
C2_CanonicalAgrees == Settled => Within(from_hsb(h, s, b, a), color, 5)

\* After the brightness of a half transparent colour went to 0, the owner set
\* black with alpha 128/255: the colour has that alpha, the alpha signal is 1.0.
C2_Witness == Settled /\ ev.kind = "external" /\ color.a = FromByte(128) /\ a = One

\* C3: in every settled state the HSL signals are within 0.001 of
\* hsb_to_hsl(h, s, b) and the RGB signals within 0.002 of hsb_to_rgb(h, s, b).
C3_ViewsAgree ==
    Settled =>
        LET hsl == hsb_to_hsl(h, s, b)
            n   == hsb_to_rgb(h, s, b)
        IN  /\ Close(s_hsl, hsl[2], 1) /\ Close(l, hsl[3], 1)
            /\ Close(r, n[1], 2) /\ Close(g, n[2], 2) /\ Close(bl, n[3], 2)

\* 50 was committed in the HSL saturation field of black: the field's signal
\* keeps 0.5 while the saturation and brightness signals stay 0.
C3_Witness ==
    Settled /\ ev.kind = "number" /\ ev.sig = "s_hsl" /\ s_hsl = One \div 2 /\ s = 0 /\ b = 0

\* The hex signal parses, and each channel parsed from it is within one 8-bit
\* step (1/255) of the colour's channel.
HexMatchesColor ==
    LET c == from_hex(hex)
    IN  /\ c # None
        /\ \A d \in {Abs(c.r - color.r), Abs(c.g - color.g),
                     Abs(c.b - color.b), Abs(c.a - color.a)} : d * 255 <= One

\* C4: once a commit on a view other than the hex text (a numeric field, the
\* wheel, a slider, an external change) that changed the colour has settled,
\* the hex signal parses to the colour, RGB and alpha, within 8-bit rounding.
C4_HexMatches ==
    Settled /\ ev.kind \in {"number", "wheel", "slider", "external"} /\ color # pre.color
        => HexMatchesColor

\* 50 was committed in the alpha field of black: the colour's alpha is 0.5 and
\* the hex signal is 000000, which parses to alpha 1.0.
C4_Witness ==
    Settled /\ ev.kind = "number" /\ ev.sig = "a" /\ color.a = One \div 2
      /\ hex = <<0, 0, 0, 0, 0, 0>>

\* The last two events: the hue field committed h0 and left the saturation at
\* 0, then the saturation field committed a value above epsilon while the
\* brightness was above epsilon.
HueThenSaturation ==
    /\ pre.ev.kind = "number" /\ pre.ev.sig = "h"
    /\ pre.s = 0 /\ Gt(pre.b, 1)
    /\ ev.kind = "number" /\ ev.sig = "s" /\ Gt(ev.val[1], 1)

\* C5: hue memory: when the hue is set to h0 while the saturation is 0 and the
\* saturation is raised next, then after settling the hue signal is still h0
\* and the colour is hsb_to_rgb(h0, s, b) within 0.001.
C5_HueMemory ==
    Settled /\ HueThenSaturation =>
        /\ h = pre.ev.val[1]
        /\ s = ev.val[1]
        /\ Within(from_hsb(pre.ev.val[1], s, b, a), color, 1)

\* Hue 360 was typed at saturation 0, saturation 100 was typed next, and the
\* hue signal still holds 1.0.
C5_Witness == Settled /\ HueThenSaturation /\ pre.ev.val[1] = One /\ h = One /\ s = One

\* C6: a commit of the hue field while the saturation is 0 leaves the colour,
\* the hex signal, the RGB signals and the HSL signals as they were.
C6_HueAtZeroChangesNothing ==
    created = Effects /\ ev.kind = "number" /\ ev.sig = "h" /\ pre.s = 0
        => /\ color = pre.color /\ hex = pre.hex
           /\ r = pre.r /\ g = pre.g /\ bl = pre.bl
           /\ s_hsl = pre.s_hsl /\ l = pre.l

\* The hue was committed while the HSL saturation signal held a stale 0.5: the
\* commit has set it to 0.
C6_Witness ==
    Settled /\ ev.kind = "number" /\ ev.sig = "h" /\ pre.s = 0
      /\ pre.s_hsl = One \div 2 /\ s_hsl = 0

\* C7: whatever the alpha, setting the brightness to 0 from the brightness
\* field or the brightness slider leaves hue and saturation untouched
\* throughout the propagation.
C7_AchromaticKeepsHueSat ==
    created = Effects /\ ev.kind \in {"number", "slider"} /\ ev.sig = "b" /\ ev.val = <<0>>
        => h = pre.h /\ s = pre.s

\* The brightness of a saturated colour with alpha 128/255 was set to 0: the
\* saturation has become 0 and the alpha 1.0.
C7_Witness ==
    Settled /\ ev.sig = "b" /\ ev.val = <<0>> /\ Gt(pre.s, 500) /\ pre.a = FromByte(128)
      /\ s = 0 /\ a = One

\* The owner set the colour to a value that is neither within 0.001 of the
\* colour before nor an echo (within 0.005) of the HSB and alpha signals.
ExternalFullPath ==
    /\ ev.kind = "external"
    /\ ~Within(Col(ev.val), pre.color, 1)
    /\ ~Within(from_hsb(pre.h, pre.s, pre.b, pre.a), Col(ev.val), 5)

\* C8: after such an external change c has settled, saturation, brightness and
\* alpha are those of c, and the hue is the hue of c when c's saturation and
\* brightness both exceed 0.001, and otherwise the hue from before the change.
C8_ExternalSetsHsb ==
    Settled /\ ExternalFullPath =>
        LET hsb == to_hsb(Col(ev.val))
        IN  /\ s = hsb[2] /\ b = hsb[3] /\ a = ev.val[4]
            /\ h = (IF Gt(hsb[2], 1) /\ Gt(hsb[3], 1) THEN hsb[1] ELSE pre.h)

\* The owner changed opaque black to black with alpha 128/255 and the alpha
\* signal has kept 1.0.
C8_Witness ==
    Settled /\ ExternalFullPath /\ pre.color.a = One /\ ev.val[4] = FromByte(128) /\ a = One

\* The text of the hex field at the last event does not parse.
InvalidKeystroke == ev.kind = "hex_type" /\ from_hex(ev.val) = None
InvalidCommit == ev.kind = "hex_commit" /\ from_hex(ev.val) = None

NoAlphaDigits ==
    /\ ev.kind \in {"hex_type", "hex_commit"}
    /\ from_hex(ev.val) # None
    /\ Len(trim_start_hash(ev.val)) \in {3, 6}

Forwarded == ev.kind = "hex_commit" \/ Len(trim_start_hash(ev.val)) = 6

EngineWritesText == text' # text /\ commits' = commits /\ "hex_text" \in created

\* The text of the hex field parses to exactly the colour.
TextMatchesColor == from_hex(text) # None /\ from_hex(text) = color

\* C11: the engine replaces the text of the hex field only when the colour
\* parsed from the text differs from the colour: a text whose parsed colour is
\* the colour, and only whose spelling differs from the formatted hex, is
\* never replaced.
C11_TextKeptWhenColourMatches == [][EngineWritesText => ~TextMatchesColor]_vars

\* An 8-digit text was typed, the colour has settled on exactly the colour the
\* text parses to, and the text in the field is no longer the one typed.
C11_Witness ==
    Settled /\ ev.kind = "hex_type" /\ Len(ev.val) = 8
      /\ from_hex(ev.val) = color /\ text # ev.val

\* Effect e has made its first set and has not yet returned.
InForward(e) == \E i \in 1..Len(stack) : stack[i].eff = e

\* C12: from the first write of the HSB -> HSL forward sync until its return
\* no step writes the saturation or the brightness signal, and from the first
\* write of the HSB -> RGB forward sync until its return no step writes the
\* hue, the saturation or the brightness signal: the back-syncs that the
\* forward writes start return without a set.
C12_ForwardNeverFiresBack ==
    [][/\ InForward("hsb_hsl") => UNCHANGED <<s, b>>
       /\ InForward("hsb_rgb") => UNCHANGED <<h, s, b>>]_vars

\* The HSB -> RGB forward sync has written a new RGB triple, the back-sync
\* has run for each of the three writes, and the forward sync is about to end.
C12_Witness ==
    /\ created = Effects /\ stack # <<>> /\ Top.eff = "hsb_rgb" /\ Top.pc = 3
    /\ <<r, g, bl>> # <<pre.r, pre.g, pre.bl>>
    /\ rgb_from_hsb

\* C13: a guard flag is true only between the first write of its own forward
\* sync and that sync's return; in every quiescent state both flags are
\* false, and when a user's edit of the HSL pair or of the RGB triple starts
\* the back-sync the flag it tests is false.
C13_GuardsOnlyDuringForward ==
    /\ hsl_from_hsb => InForward("hsb_hsl")
    /\ rgb_from_hsb => InForward("hsb_rgb")
    /\ Quiescent => ~hsl_from_hsb /\ ~rgb_from_hsb
    /\ Len(stack) = 1 /\ Top.eff = "notify" /\ ev.kind = "number" =>
          /\ "hsl_hsb" \in Top.pend => ~hsl_from_hsb
          /\ "rgb_hsb" \in Top.pend => ~rgb_from_hsb

\* A commit in the lightness field, made after an earlier event, changed the
\* brightness: the back-sync was not suppressed, and both flags are false.
C13_Witness ==
    Settled /\ commits = 2 /\ ev.kind = "number" /\ ev.sig = "l" /\ b # pre.b
      /\ ~hsl_from_hsb /\ ~rgb_from_hsb

\* The last event is a commit in the HSL saturation or the lightness field.
HslEdit == ev.kind = "number" /\ ev.sig \in {"s_hsl", "l"}

\* The HSL pair as the commit left it, and what hsl_to_hsb makes of it with
\* the hue of that moment.
EditedHsl == IF ev.sig = "s_hsl" THEN <<ev.val[1], pre.l>> ELSE <<pre.s_hsl, ev.val[1]>>
EditedHsb == hsl_to_hsb(pre.h, EditedHsl[1], EditedHsl[2])

RgbEdit == ev.kind = "number" /\ ev.sig \in {"r", "g", "bl"}

\* The RGB triple as the commit left it, and its conversion to HSB.
EditedRgb ==
    << IF ev.sig = "r" THEN ev.val[1] ELSE pre.r,
       IF ev.sig = "g" THEN ev.val[1] ELSE pre.g,
       IF ev.sig = "bl" THEN ev.val[1] ELSE pre.bl >>
EditedRgbHsb == rgb_to_hsb(EditedRgb[1], EditedRgb[2], EditedRgb[3])

\* The edited triple has a hue: saturation and brightness both exceed 0.001.
EditedHasHue == Gt(EditedRgbHsb[2], 1) /\ Gt(EditedRgbHsb[3], 1)

EditIsEcho ==
    /\ RgbEdit
    /\ Close(pre.s, EditedRgbHsb[2], 2) /\ Close(pre.b, EditedRgbHsb[3], 2)
    /\ EditedHasHue => Close(pre.h, EditedRgbHsb[1], 2)

\* C16: a commit in an RGB field whose edited triple converts to the HSB
\* triple the signals already hold, within 0.002, writes neither the hue nor
\* the saturation nor the brightness signal and publishes no colour: at every
\* step after it they, the colour and the hex signal are what they were.
C16_EchoSuppressed ==
    created = Effects /\ EditIsEcho =>
        /\ h = pre.h /\ s = pre.s /\ b = pre.b
        /\ color = pre.color /\ hex = pre.hex

\* 127.4 was committed in the red field showing 128 for the value 0.5: the
\* red signal has changed by 0.0004 and nothing else has.
C16_Witness ==
    Settled /\ EditIsEcho /\ r # pre.r /\ Close(r, pre.r, 1) /\ s = pre.s /\ color = pre.color

\* The owner set the colour to a value within 0.001 per channel of the colour
\* before, whose hex was the formatted colour.
NearPrevious ==
    /\ ev.kind = "external"
    /\ Within(Col(ev.val), pre.color, 1)
    /\ pre.hex = to_hex(pre.color)

\* The hex signal parses to the colour that the formatted colour parses to.
HexReconciled == from_hex(hex) = from_hex(to_hex(color))

\* C17: an external change of the colour to a value within 0.001 per channel
\* of the colour before leaves hue, saturation, brightness and alpha as they
\* were, and once it has settled the hex signal is the hex of the new colour.
C17_NearPreviousReconcilesHex ==
    created = Effects /\ NearPrevious =>
        /\ h = pre.h /\ s = pre.s /\ b = pre.b /\ a = pre.a
        /\ Quiescent => HexReconciled

\* The owner changed half transparent gray 0.5 to gray 0.4995: the colour
\* formats as 7F7F7F80 and the hex signal still holds 80808080.
C17_Witness ==
    Settled /\ NearPrevious /\ color # pre.color /\ color = Col(ev.val)
      /\ hex = pre.hex /\ to_hex(color) # hex /\ ~HexReconciled

\* The owner set the colour to a value that the HSB signals and the alpha
\* signal already give within 0.005 per channel, while the hex was the
\* formatted colour.
ExternalEcho ==
    /\ ev.kind = "external"
    /\ Within(from_hsb(pre.h, pre.s, pre.b, pre.a), Col(ev.val), 5)
    /\ pre.hex = to_hex(pre.color)

\* C18: an external change of the colour to a value that hsb_to_rgb of the
\* HSB signals and the alpha signal match within 0.005 per channel writes
\* neither hue, saturation, brightness nor alpha; once it has settled the
\* colour is the one the owner set and the hex signal is its hex.
C18_EchoReconcilesHexOnly ==
    created = Effects /\ ExternalEcho =>
        /\ h = pre.h /\ s = pre.s /\ b = pre.b /\ a = pre.a
        /\ Quiescent => color = Col(ev.val) /\ HexReconciled

\* The owner set the alpha of half transparent gray to 0.5045, within 0.005
\* of the alpha signal: the hex effect has read the alpha byte 129 back, the
\* alpha signal holds 129/255 and the colour is no longer the one the owner set.
C18_Witness ==
    Settled /\ ExternalEcho /\ pre.a = One \div 2 /\ ev.val[4] = One \div 2 + 138
      /\ a = FromByte(129) /\ color # Col(ev.val)

\* Every view is the one derived from colour c: HSB by to_hsb, the alpha, the
\* HSL pair by hsb_to_hsl, the RGB triple, and the hex signal and the text of
\* the hex field by to_hex.
ViewsDerivedFrom(c) ==
    LET hsb == to_hsb(c)
        hsl == hsb_to_hsl(hsb[1], hsb[2], hsb[3])
    IN  /\ h = hsb[1] /\ s = hsb[2] /\ b = hsb[3] /\ a = c.a
        /\ s_hsl = hsl[2] /\ l = hsl[3]
        /\ r = c.r /\ g = c.g /\ bl = c.b
        /\ hex = to_hex(c) /\ text = to_hex(c)

\* C19: for every initial colour, mounting never changes the colour signal,
\* and once mounting has settled every view is the one derived from the
\* initial colour.
C19_MountDerivesViews ==
    ev.kind = "mount" =>
        /\ color = Col(ev.val)
        /\ Settled => ViewsDerivedFrom(Col(ev.val))

\* The editor was mounted with half transparent black and has settled with an
\* opaque colour and the alpha signal at 1.0.
C19_Witness ==
    Settled /\ ev.kind = "mount" /\ ev.val = <<0, 0, 0, One \div 2>>
      /\ color.a = One /\ a = One

\* The last two requests of view w asked for the same key.
SameKeyTwice(w) ==
    /\ Len(requests[w]) >= 2
    /\ requests[w][Len(requests[w]) - 1].key = requests[w][Len(requests[w])].key

\* C20: for each of the three views, when two consecutive paint-time
\* requests ask for the same key (the quantized base colour and the physical
\* width and height; for the wheel its width and height) the second returns
\* the hash and the image of the first and does not rasterize.
C20_SameKeySameImage ==
    \A w \in Views :
        SameKeyTwice(w) =>
            LET n == Len(requests[w])
            IN  /\ requests[w][n].hash = requests[w][n - 1].hash
                /\ requests[w][n].img = requests[w][n - 1].img
                /\ ~requests[w][n].rasterized

\* The brightness slider was painted twice with the key it has now, and the
\* image it holds was rasterized for another base colour of that key than
\* the one it has now.
C20_Witness ==
    /\ SameKeyTwice("brightness")
    /\ requests["brightness"][Len(requests["brightness"])].img # None
    /\ requests["brightness"][Len(requests["brightness"])].key =
          <<color_key(sliders["brightness"]), sliders["brightness"].cached_dims>>
    /\ sliders["brightness"].grad_img.pixels #
          rasterize_brightness_gradient(sliders["brightness"].cached_dims[1],
                                        sliders["brightness"].cached_dims[2],
                                        sliders["brightness"].base_r,
                                        sliders["brightness"].base_g,
                                        sliders["brightness"].base_b)

\* The key a slider holds with its image, and the last request of a view.
StoredKey(w) == <<sliders[w].cached_color, sliders[w].cached_dims>>
LastRequest(w) == requests[w][Len(requests[w])]

\* The hashes made of the ids Blob::new has handed out so far.
Issued == { <<k>> : k \in 1..blobs }

\* The pixels of slider w for its base colour at the physical size dims.
Gradient(w, dims) ==
    IF w = "brightness"
    THEN rasterize_brightness_gradient(dims[1], dims[2], sliders[w].base_r,
                                       sliders[w].base_g, sliders[w].base_b)
    ELSE rasterize_alpha_gradient(dims[1], dims[2], sliders[w].base_r,
                                  sliders[w].base_g, sliders[w].base_b)

\* A paint of slider w asks for a key other than the stored one.
NewKeyRequest(w) ==
    /\ requests'[w] # requests[w]
    /\ LastRequest(w)'.key # StoredKey(w)

\* The request rasterized the gradient of the base colour at the size asked
\* for, stored it under the key asked for, and its hash was never issued.
RasterizedAnew(w) ==
    /\ LastRequest(w)'.rasterized
    /\ LastRequest(w)'.img = Image(Gradient(w, LastRequest(w)'.key[2]),
                                   LastRequest(w)'.key[2][1], LastRequest(w)'.key[2][2])
    /\ sliders'[w].grad_img = LastRequest(w)'.img
    /\ sliders'[w].grad_hash = LastRequest(w)'.hash
    /\ StoredKey(w)' = LastRequest(w)'.key
    /\ LastRequest(w)'.hash \notin Issued

\* C21 as stated: a paint-time request of a slider whose key (quantized red,
\* green, blue of the base colour, physical width, physical height) differs
\* from the stored key rasterizes a new bitmap, stores it with the new key
\* and issues a token different from every token issued before.
C21_NewKeyRasterizes ==
    [][\A w \in Sliders : NewKeyRequest(w) => RasterizedAnew(w)]_vars

\* C21 amended: the same, for a request whose physical width and height are
\* both non-zero.
C21_NewKeyRasterizesNonEmpty ==
    [][\A w \in Sliders :
          NewKeyRequest(w) /\ LastRequest(w)'.key[2][1] # 0 /\ LastRequest(w)'.key[2][2] # 0
              => RasterizedAnew(w)]_vars

\* A slider was painted twice at the same physical size for base colours of
\* different keys, and both paints rasterized.
C21_Witness ==
    \E w \in Sliders :
        /\ Len(requests[w]) = 2
        /\ requests[w][1].key[2] = requests[w][2].key[2]
        /\ requests[w][1].key[1] # requests[w][2].key[1]
        /\ requests[w][1].rasterized /\ requests[w][2].rasterized
        /\ requests[w][1].hash # requests[w][2].hash

\* The last three requests of slider w asked for key A, key B, key A, and
\* the first of them rasterized.
RequestedABA(w) ==
    /\ Len(requests[w]) = 3
    /\ requests[w][1].key # requests[w][2].key
    /\ requests[w][3].key = requests[w][1].key
    /\ requests[w][1].rasterized

\* The second and the third request rasterized too, and the third draws
\* neither the hash nor the image object of the first: its hash is another.
ThreeRasterizations(w) ==
    /\ requests[w][2].rasterized /\ requests[w][3].rasterized
    /\ requests[w][3].hash # requests[w][1].hash
    /\ requests[w][3].hash # requests[w][2].hash
    /\ requests[w][2].hash # requests[w][1].hash

\* C22 as stated: a slider's cache holds one entry, so the requests key A,
\* key B, key A rasterize three times and the third does not reuse the
\* bitmap or the token of the first.
C22_OneEntry == \A w \in Sliders : RequestedABA(w) => ThreeRasterizations(w)

\* C22 amended: the same, when key B has a non-zero physical width and
\* height.
C22_OneEntryNonEmpty ==
    \A w \in Sliders :
        RequestedABA(w) /\ requests[w][2].key[2][1] # 0 /\ requests[w][2].key[2][2] # 0
            => ThreeRasterizations(w)

\* A slider was painted for key A, key B of the same colour at another
\* non-empty size, and key A again, and holds the third image.
C22_Witness ==
    \E w \in Sliders :
        /\ RequestedABA(w)
        /\ requests[w][2].key[1] = requests[w][1].key[1]
        /\ requests[w][2].key[2][1] # 0
        /\ sliders[w].grad_hash = requests[w][3].hash
        /\ requests[w][3].img = requests[w][1].img

\* The image, hash and stored key of view w.
Cache(w) ==
    IF w = "wheel"
    THEN <<wheel.wheel_img, wheel.wheel_hash>>
    ELSE <<sliders[w].grad_img, sliders[w].grad_hash,
           sliders[w].cached_color, sliders[w].cached_dims>>

\* What the updates of view w set: the value, the base colour, the size.
Updated(w) ==
    IF w = "wheel"
    THEN <<wheel.hue, wheel.saturation, wheel.brightness, wheel.size>>
    ELSE <<sliders[w].value, sliders[w].base_r, sliders[w].base_g, sliders[w].base_b,
           sliders[w].size>>

\* C23: invalidation is lazy.  A step that updates a view (value, base
\* colour, size) creates no blob and leaves the view's image, hash and
\* stored key as they were; a blob is created and a cache changed only by a
\* paint, which rasterizes at most once.  So any number of updates between
\* two paints costs at most one rasterization, at the later paint.
C23_LazyInvalidation ==
    [][\A w \in Views :
          /\ Updated(w)' # Updated(w) => blobs' = blobs /\ Cache(w)' = Cache(w)
          /\ Cache(w)' # Cache(w) =>
                /\ blobs' = blobs + 1
                /\ requests'[w] # requests[w]
                /\ LastRequest(w)'.rasterized
                /\ \A v \in Views \ {w} : Cache(v)' = Cache(v)
          /\ blobs' # blobs => \E v \in Views : Cache(v)' # Cache(v)]_vars

\* Between two paints of a slider its base colour and its size were both
\* updated, and the later paint rasterized once.
C23_Witness ==
    \E w \in Sliders :
        /\ Len(requests[w]) >= 2
        /\ LET n == Len(requests[w])
           IN  /\ requests[w][n].key[1] # requests[w][n - 1].key[1]
               /\ requests[w][n].key[2] # requests[w][n - 1].key[2]
               /\ requests[w][n].rasterized /\ requests[w][n - 1].rasterized
               /\ requests[w][n].hash = <<blobs>>
               /\ requests[w][n - 1].hash = <<blobs - 1>>

\* Request k of the wheel follows another remembered request.
Follows(k) == k \in 2..Len(requests["wheel"])

\* C24 as stated: the key of the wheel's cache is its width and height.  A
\* paint after the size has changed rasterizes a new bitmap with a new
\* token, and a paint at an unchanged size reuses the stored bitmap and
\* token.
C24_WheelKeyedBySize ==
    \A k \in 1..Len(requests["wheel"]) :
        Follows(k) =>
            LET prior == requests["wheel"][k - 1]
                req   == requests["wheel"][k]
            IN  IF req.key = prior.key
                THEN ~req.rasterized /\ req.hash = prior.hash /\ req.img = prior.img
                ELSE req.rasterized /\ req.hash # prior.hash

\* C24 amended: the wheel's cache has no key.  Every paint at a non-empty
\* size draws the bitmap of WHEEL_RASTER_SIZE x WHEEL_RASTER_SIZE pixels
\* with the token "wheel"; a paint that follows another one never rasterizes
\* and draws the same bitmap and token, whether the size has changed or not.
C24_WheelRasterizedOnce ==
    \A k \in 1..Len(requests["wheel"]) :
        LET req == requests["wheel"][k]
        IN  /\ req.img = Image(rasterize_wheel_base(WHEEL_RASTER_SIZE, WHEEL_RASTER_SIZE),
                               WHEEL_RASTER_SIZE, WHEEL_RASTER_SIZE)
            /\ req.hash = <<"wheel">>
            /\ req.key[1] # 0 /\ req.key[2] # 0
            /\ Follows(k) => ~req.rasterized /\ req.img = requests["wheel"][k - 1].img

\* The wheel was painted at one size, which rasterized, then at another
\* size, then at that size again.
C24_Witness ==
    /\ Len(requests["wheel"]) = 3
    /\ requests["wheel"][1].rasterized
    /\ requests["wheel"][2].key # requests["wheel"][1].key
    /\ requests["wheel"][3].key = requests["wheel"][2].key
    /\ wheel.wheel_img = requests["wheel"][3].img

\* An update of the wheel's hue, saturation or brightness.
WheelValueUpdate ==
    <<wheel.hue, wheel.saturation, wheel.brightness>>' #
        <<wheel.hue, wheel.saturation, wheel.brightness>>

\* C25: changes of brightness, hue or saturation never rasterize the wheel
\* again.  Such an update leaves the bitmap and its token as they are and
\* creates no blob; once the wheel holds a bitmap, no update and no paint
\* replaces it or its token; and a paint draws the black overlay with the
\* opacity 1 - brightness (no overlay when that is at most 0.001), so two
\* paints at different brightness differ in the overlay only.
C25_BrightnessNeverRasterizes ==
    [][/\ WheelValueUpdate =>
             /\ wheel'.wheel_img = wheel.wheel_img
             /\ wheel'.wheel_hash = wheel.wheel_hash
             /\ blobs' = blobs
       /\ wheel.wheel_img # None =>
             /\ wheel'.wheel_img = wheel.wheel_img
             /\ wheel'.wheel_hash = wheel.wheel_hash
       /\ requests'["wheel"] # requests["wheel"] =>
             /\ LastRequest("wheel")'.overlay = Overlay(wheel.brightness)
             /\ LastRequest("wheel")'.img = wheel'.wheel_img
             /\ LastRequest("wheel")'.hash = wheel'.wheel_hash
             /\ requests["wheel"] # <<>> =>
                   /\ ~LastRequest("wheel")'.rasterized
                   /\ LastRequest("wheel")'.img = LastRequest("wheel").img
                   /\ LastRequest("wheel")'.hash = LastRequest("wheel").hash]_vars

\* The wheel was painted at brightness 1 without an overlay, then darkened
\* to brightness 0 and painted at the same size with an overlay of opacity
\* 1, drawing the same bitmap.
C25_Witness ==
    /\ Len(requests["wheel"]) >= 2
    /\ LET n == Len(requests["wheel"])
       IN  /\ requests["wheel"][n - 1].overlay = 0
           /\ requests["wheel"][n].overlay = One
           /\ requests["wheel"][n].key = requests["wheel"][n - 1].key
           /\ requests["wheel"][n].img = requests["wheel"][n - 1].img
    /\ wheel.brightness = 0

\* The constructors of SolidColor.
Constructors == {"from_rgb", "from_hsb", "from_hsl", "from_rgba", "from_hex"}

\* All four channels of c are in [0,1].
InRange(c) ==
    /\ 0 <= c.r /\ c.r <= One
    /\ 0 <= c.g /\ c.g <= One
    /\ 0 <= c.b /\ c.b <= One
    /\ 0 <= c.a /\ c.a <= One

\* C26: every Color Value a constructor returns (from 8-bit RGB, from
\* HSB + alpha, from HSL + alpha, from raw RGBA floats, from hex text) has
\* all four channels in [0,1], and so has the canonical colour.
C26_ChannelsInRange ==
    /\ call.fn \in Constructors /\ call.result # None => InRange(call.result)
    /\ InRange(color)

\* from_rgba was called with a red of 1.5 and returned a colour.
C26_Witness ==
    /\ call.fn = "from_rgba" /\ call.args[1] = (3 * One) \div 2
    /\ call.result.r = (3 * One) \div 2

\* x is in [0,1].
InUnit(x) == 0 <= x /\ x <= One

\* C27: after any sequence of commits through the numeric fields, the hex
\* field, the sliders, the wheel and external changes, every signal is in
\* its declared range: hue in [0,1), and saturation, brightness, alpha, HSL
\* saturation, lightness and the three RGB channels in [0,1].
C27_SignalsInRange ==
    /\ 0 <= h /\ h < One
    /\ InUnit(s) /\ InUnit(b) /\ InUnit(a)
    /\ InUnit(s_hsl) /\ InUnit(l)
    /\ InUnit(r) /\ InUnit(g) /\ InUnit(bl)

\* 360 was committed in the hue field, the effects have run, and the hue
\* signal holds 1.0.
C27_Witness ==
    /\ Settled /\ ev.kind = "number" /\ ev.sig = "h" /\ ev.val = <<One>>
    /\ h = One

\* The text without one leading '#', if it has one.
StripOne(str) == IF Len(str) > 0 /\ Head(str) = Hash THEN Tail(str) ELSE str

\* The byte two hex digits write, as a channel: byte / 255.
Channel(hi, lo) == ((16 * DigitValue(hi) + DigitValue(lo)) * One) \div 255

\* The colour the digits of an accepted text stand for: XYZ as XXYYZZ with
\* alpha 1.0, RRGGBB with alpha 1.0, RRGGBBAA.
Parsed(d) ==
    CASE Len(d) = 3 -> SolidColor(Channel(d[1], d[1]), Channel(d[2], d[2]),
                                  Channel(d[3], d[3]), One)
      [] Len(d) = 6 -> SolidColor(Channel(d[1], d[2]), Channel(d[3], d[4]),
                                  Channel(d[5], d[6]), One)
      [] Len(d) = 8 -> SolidColor(Channel(d[1], d[2]), Channel(d[3], d[4]),
                                  Channel(d[5], d[6]), Channel(d[7], d[8]))

\* C28: from_hex accepts a text exactly when, after stripping one optional
\* leading '#', it consists of 3, 6 or 8 hex digits, and yields no colour
\* for every other text; an accepted text XYZ yields the colour of XXYYZZ, a
\* 6-digit text the three bytes divided by 255 with alpha 1.0, an 8-digit
\* text also the fourth byte divided by 255 as alpha.
C28_HexParse ==
    call.fn = "from_hex" =>
        LET d == StripOne(call.args[1])
        IN  IF Len(d) \in {3, 6, 8} /\ AllHex(d)
            THEN call.result = Parsed(d)
            ELSE call.result = None

\* from_hex was called with ##F08 and returned the colour FF0088.
C28_Witness ==
    /\ call.fn = "from_hex" /\ call.args[1] = <<Hash, Hash, 15, 0, 8>>
    /\ call.result = SolidColor(One, 0, FromByte(136), One)

\* The text is made of uppercase hex digits only (no '#').
UpperHex(str) == \A k \in 1..Len(str) : str[k] \in 0..15

\* to_hex writes 6 digits for c: its alpha is within 0.001 of 1.0, or its
\* three RGB bytes round to zero.
SixDigits(c) ==
    \/ Lt(Abs(c.a - One), 1)
    \/ ToByte(c.r) = 0 /\ ToByte(c.g) = 0 /\ ToByte(c.b) = 0

\* C29: to_hex returns exactly 6 uppercase hex digits, the RGB bytes, when
\* alpha is within 0.001 of 1.0 or all three RGB bytes round to zero, and
\* otherwise exactly 8 uppercase hex digits, the RGB bytes and the rounded
\* alpha byte.
C29_HexFormat ==
    call.fn = "to_hex" =>
        LET c   == call.args[1]
            str == call.result
        IN  /\ UpperHex(str)
            /\ Len(str) = IF SixDigits(c) THEN 6 ELSE 8
            /\ Byte2(str, 1) = ToByte(c.r)
            /\ Byte2(str, 3) = ToByte(c.g)
            /\ Byte2(str, 5) = ToByte(c.b)
            /\ Len(str) = 8 => Byte2(str, 7) = ToByte(c.a)

\* to_hex was called for a half transparent colour whose red is below half
\* an 8-bit step and returned 000000.
C29_Witness ==
    /\ call.fn = "to_hex"
    /\ call.args[1] = SolidColor(59, 0, 0, One \div 2)
    /\ call.result = <<0, 0, 0, 0, 0, 0>>

\* The colour is black for to_hex and not opaque: its three RGB bytes round
\* to zero and its alpha is below 1.
BlackBelowOpaque(c) ==
    /\ ToByte(c.r) = 0 /\ ToByte(c.g) = 0 /\ ToByte(c.b) = 0
    /\ c.a < One

\* Half an 8-bit step, 1/510.
HalfStep == One \div 510

\* C30: for every colour c with channels in [0,1] that is not black with
\* alpha below 1 (black as to_hex takes it: the three RGB bytes round to
\* zero), from_hex(to_hex(c)) is a colour and each of its four channels is
\* within half an 8-bit step of the channel of c.
C30_HexRoundTrip ==
    call.fn = "to_hex" /\ InRange(call.args[1]) /\ ~BlackBelowOpaque(call.args[1]) =>
        LET c    == call.args[1]
            back == from_hex(call.result)
        IN  /\ back # None
            /\ Abs(back.r - c.r) <= HalfStep
            /\ Abs(back.g - c.g) <= HalfStep
            /\ Abs(back.b - c.b) <= HalfStep
            /\ Abs(back.a - c.a) <= HalfStep

\* to_hex was called for a half transparent colour with channels half a
\* step off a byte, and the text reads back as another colour.
C30_Witness ==
    /\ call.fn = "to_hex"
    /\ call.args[1] = SolidColor(One \div 2, 61, 59, One \div 2)
    /\ Len(call.result) = 8
    /\ from_hex(call.result) = SolidColor(FromByte(128), FromByte(1), 0, FromByte(128))

\* The arguments are in the domain of the round trip: h in [0,1), s above
\* 0.001 and v strictly between 0.001 and 0.999.
RoundTripDomain(hv, sv, vv) ==
    /\ 0 <= hv /\ hv < One
    /\ Gt(sv, 1) /\ sv <= One
    /\ Gt(vv, 1) /\ Lt(vv, 999)

\* Two hues are within m thousandths of each other on the hue circle, where
\* 0.0 and 1.0 are the same hue.
CloseOnCircle(x, y, m) == Close(x, y, m) \/ Close(Abs(x - y), One, m)

\* hsb_to_rgb(0,1,1) is (1,0,0) and rgb_to_hsb(1,0,0) is (0,1,1).
PureRed ==
    /\ call.fn = "hsb_to_rgb" /\ call.args = <<0, One, One>> => call.result = <<One, 0, 0>>
    /\ call.fn = "rgb_to_hsb" /\ call.args = <<One, 0, 0>> => call.result = <<0, One, One>>

\* C31 as stated: for all (h,s,v) with h in [0,1), s > 0.001 and v in
\* (0.001, 0.999), rgb_to_hsb(hsb_to_rgb(h,s,v)) equals (h,s,v) within 0.001
\* in each component, and pure red converts exactly in both directions.
C31_RoundTrip ==
    /\ PureRed
    /\ call.fn = "hsb_to_rgb" /\ RoundTripDomain(call.args[1], call.args[2], call.args[3]) =>
           LET back == rgb_to_hsb(call.result[1], call.result[2], call.result[3])
           IN  /\ Close(back[1], call.args[1], 1)
               /\ Close(back[2], call.args[2], 1)
               /\ Close(back[3], call.args[3], 1)

\* C31 (amended): the same round trip with the hue compared on the hue
\* circle: the hue that comes back is within 0.001 of h or of h - 1, and
\* saturation and value are within 0.001 of s and v.
C31_RoundTripOnCircle ==
    /\ PureRed
    /\ call.fn = "hsb_to_rgb" /\ RoundTripDomain(call.args[1], call.args[2], call.args[3]) =>
           LET back == rgb_to_hsb(call.result[1], call.result[2], call.result[3])
           IN  /\ CloseOnCircle(back[1], call.args[1], 1)
               /\ Close(back[2], call.args[2], 1)
               /\ Close(back[3], call.args[3], 1)

\* hsb_to_rgb was called with the largest hue below 1.0 and a low
\* saturation, the channels it returned are those of hue 0, and rgb_to_hsb
\* was then called with them and returned hue 0.
C31_Witness ==
    /\ call.fn = "rgb_to_hsb"
    /\ call.args = hsb_to_rgb(One - 1, One \div 20, One \div 2)
    /\ call.args = hsb_to_rgb(0, One \div 20, One \div 2)
    /\ call.result[1] = 0

\* The conversion returned the hue it was given, and a saturation and a
\* value or lightness in [0,1].
HueKeptInUnit ==
    /\ call.result[1] = call.args[1]
    /\ InUnit(call.result[2]) /\ InUnit(call.result[3])

\* C32 as stated: hsl_to_hsb and hsb_to_hsl pass the hue through and, for
\* arguments in [0,1], return a saturation and a value or lightness in
\* [0,1]; and for every lightness strictly between 0 and 1,
\* hsb_to_hsl(hsl_to_hsb(h,s,l)) = (h,s,l).
C32_Inverse ==
    /\ call.fn \in {"hsl_to_hsb", "hsb_to_hsl"} => HueKeptInUnit
    /\ call.fn = "hsl_to_hsb" /\ 0 < call.args[3] /\ call.args[3] < One =>
           hsb_to_hsl(call.result[1], call.result[2], call.result[3]) = call.args

\* C32 (amended): the same, with the round trip for lightness from 0.001 to
\* 0.999 and up to rounding: the hue comes back unchanged, and saturation
\* and lightness within 0.001.
C32_InverseWithin ==
    /\ call.fn \in {"hsl_to_hsb", "hsb_to_hsl"} => HueKeptInUnit
    /\ call.fn = "hsl_to_hsb" /\ ~Lt(call.args[3], 1) /\ ~Gt(call.args[3], 999) =>
           LET back == hsb_to_hsl(call.result[1], call.result[2], call.result[3])
           IN  /\ back[1] = call.args[1]
               /\ Close(back[2], call.args[2], 1)
               /\ Close(back[3], call.args[3], 1)

\* hsl_to_hsb was called with saturation 0.5 and the largest lightness below
\* 1.0, and hsb_to_hsl of the triple it returned has saturation 1.0.
C32_Witness ==
    /\ call.fn = "hsb_to_hsl"
    /\ \E hv \in Hues :
           /\ call.args = hsl_to_hsb(hv, One \div 2, One - 1)
           /\ call.result = <<hv, One, One - 1>>

\* The RGB bytes of the leftmost column of an image.
LeftColumn(img) == <<img.pixels[1][1], img.pixels[1][2], img.pixels[1][3]>>

\* C33: keys and pixels are rounded by the same rule: for both sliders and
\* every base colour, the three colour components of the key a bitmap was
\* rasterized for equal the RGB bytes of the bitmap's leftmost column.
C33_KeyRoundsAsPixels ==
    \A w \in Sliders : \A n \in 1..Len(requests[w]) :
        requests[w][n].rasterized =>
            LeftColumn(requests[w][n].img) = requests[w][n].key[1]

\* The brightness slider has rasterized the gradient of gray 0.5, whose
\* channels lie exactly between two bytes: key and leftmost column are 128.
C33_Witness ==
    /\ requests["brightness"] # <<>>
    /\ LET q == requests["brightness"][Len(requests["brightness"])]
       IN  /\ q.rasterized
           /\ sliders["brightness"].base_r = One \div 2
           /\ q.key[1] = <<128, 128, 128>>
           /\ LeftColumn(q.img) = <<128, 128, 128>>

\* The last event is an edit of an HSB, HSL or RGB component: a commit in a
\* numeric field other than alpha, a press on the wheel, or a press on the
\* brightness slider.
ComponentEdit ==
    \/ ev.kind = "number" /\ ev.sig # "a"
    \/ ev.kind = "wheel"
    \/ ev.kind = "slider" /\ ev.sig = "b"

\* C34: no HSB, HSL or RGB edit changes alpha: while and after such an edit
\* propagates, the alpha signal and the alpha of the canonical colour are
\* what they were when the edit arrived.
C34_EditsKeepAlpha ==
    ComponentEdit => a = pre.a /\ color.a = pre.color.a

\* The brightness slider was pressed at 0 while alpha was 0.5, the effects
\* have run, and the alpha signal and the canonical alpha are 1.0.
C34_Witness ==
    /\ Settled /\ ev.kind = "slider" /\ ev.sig = "b" /\ ev.val = <<0>>
    /\ pre.a < One /\ pre.color.a < One
    /\ a = One /\ color.a = One
    /\ hex = <<0, 0, 0, 0, 0, 0>>

\* The last event is one of the commits of C35: an external change of the
\* canonical colour, a hex commit, an HSL edit, an RGB edit or a wheel press.
SingleCommit ==
    \/ ev.kind \in {"external", "hex_commit", "wheel"}
    \/ HslEdit
    \/ RgbEdit

\* Two colours are the same within the widest tolerance of the engine, 0.005.
SameColour(c1, c2) == ~Differs(c1, c2, 5)

\* C35: one commit publishes no intermediate colour.  The canonical colour
\* only ever holds its previous value or the final one, so a step of the
\* propagation never moves it between two different values neither of
\* which is the previous value.
C35_NoIntermediateColour ==
    [][SingleCommit' =>
          \/ SameColour(color', color)
          \/ SameColour(color, pre'.color)
          \/ SameColour(color', pre'.color)]_vars

\* A press on the wheel has set the hue and not yet the saturation, and the
\* canonical colour is the one of the new hue with the old saturation:
\* neither the colour before the press nor the colour of the pressed point.
C35_Witness ==
    /\ ev.kind = "wheel" /\ ~Quiescent
    /\ s = pre.s /\ s # ev.val[2]
    /\ color = from_hsb(ev.val[1], pre.s, pre.b, pre.a)
    /\ ~SameColour(color, pre.color)
    /\ ~SameColour(color, from_hsb(ev.val[1], ev.val[2], pre.b, pre.a))

\* The hex handler is about to run for a text the engine has written: the
\* last event is no edit of the hex field and no mount, so the hex signal
\* was last set by the HSB -> color or the external-colour effect, and it
\* holds the hex format of the canonical colour.
EngineEcho ==
    /\ Starts("hex_color")
    /\ ev.kind \notin {"mount", "hex_type", "hex_commit"}
    /\ hex = to_hex(color)

\* The step starts a run of the hex handler that goes on to set signals: the
\* handler's frame is on the stack above what the run was started on.
HexRunSets ==
    LET k == Len(AfterStart("hex_color")) + 1
    IN  Len(stack') >= k /\ stack'[k].eff = "hex_color"

\* C36: hex echo suppression.  When the hex handler runs for a text the
\* engine itself has written as the hex format of the canonical colour, the
\* run changes neither the canonical colour nor hue, saturation, brightness
\* or alpha, and sets none of them.
C36_HexEchoSuppressed ==
    [][EngineEcho => UNCHANGED <<color, h, s, b, a>> /\ ~HexRunSets]_vars

\* After a press on the brightness slider the engine has written 000000 for
\* black with alpha below 1, and the hex handler, run for that text, has set
\* the canonical colour to opaque black and is about to set the HSB signals.
C36_Witness ==
    /\ ev.kind = "slider" /\ ev.sig = "b"
    /\ hex = <<0, 0, 0, 0, 0, 0>>
    /\ a < One /\ color = SolidColor(0, 0, 0, One)
    /\ \E k \in 1..Len(stack) : stack[k].eff = "hex_color" /\ stack[k].pc = 1

\* The base colours a slider can have: the ones its constructor gives it
\* (white for the brightness slider of a gray, gray 0.5 for the alpha
\* slider) and the ones its effects send.
SliderBases == BaseColors \cup {<<One, One, One>>, <<One \div 2, One \div 2, One \div 2>>}

\* The image of slider w is the gradient of base colour c at the size dims.
GradientOf(w, c, dims) ==
    Image(IF w = "brightness"
          THEN rasterize_brightness_gradient(dims[1], dims[2], c[1], c[2], c[3])
          ELSE rasterize_alpha_gradient(dims[1], dims[2], c[1], c[2], c[3]),
          dims[1], dims[2])

\* The stored key of slider w is the key its image was rasterized for: the
\* image has the stored dims, and it is the gradient of a base colour whose
\* quantized channels are the stored colour.
KeyOfImage(w) ==
    LET sl == sliders[w]
    IN  /\ sl.grad_img.width = sl.cached_dims[1]
        /\ sl.grad_img.height = sl.cached_dims[2]
        /\ \E c \in SliderBases :
               /\ <<KeyByte(c[1]), KeyByte(c[2]), KeyByte(c[3])>> = sl.cached_color
               /\ sl.grad_img = GradientOf(w, c, sl.cached_dims)

\* A paint of slider w has asked for an image of an empty physical size.
EmptyRequest(w) ==
    /\ requests'[w] # requests[w]
    /\ LastRequest(w)'.key[2][1] = 0 \/ LastRequest(w)'.key[2][2] = 0

\* C37: slider cache consistency.  Whenever a slider holds an image, the
\* stored key (cached_color, cached_dims) is the key the image was
\* rasterized for and the image's width and height are cached_dims; and a
\* paint whose physical width or height is 0 leaves image, key and hash as
\* they were.
C37_CacheConsistent ==
    /\ [](\A w \in Sliders : sliders[w].grad_img # None => KeyOfImage(w))
    /\ [][\A w \in Sliders : EmptyRequest(w) => Cache(w)' = Cache(w)]_vars

\* The alpha slider holds the image a paint has rasterized, was then laid
\* out at an empty size and painted again: the later request rasterized
\* nothing and the slider still holds the image with its key.
C37_Witness ==
    /\ Len(requests["alpha"]) >= 2
    /\ LET n == Len(requests["alpha"])
       IN  /\ requests["alpha"][n - 1].rasterized
           /\ requests["alpha"][n].key[2] = <<0, 0>>
           /\ ~requests["alpha"][n].rasterized
           /\ sliders["alpha"].grad_img = requests["alpha"][n - 1].img
           /\ StoredKey("alpha") = requests["alpha"][n - 1].key

\* The last call is a commit of a numeric field.
FieldCommit == call.fn \in {"number_input", "alpha_input"}

\* The text the commit parsed: alpha_input trims it first.
ParsedText == IF call.fn = "alpha_input" THEN trim(call.args[1]) ELSE call.args[1]

\* C38: committing a numeric field never stores an out-of-range value.  A
\* text that parses as a number is clamped to [0, max_display] before it is
\* stored as value / max_display, so what is stored is in [0,1]; a text
\* that does not parse leaves the signal unchanged and the field holds the
\* signal's rounded display value.
C38_CommitInRange ==
    FieldCommit =>
        LET value == call.args[2]
            max   == call.args[3]
            res   == call.result
        IN  IF parse_f64(ParsedText).ok
            THEN res.set => ~res.nan /\ InUnit(res.v)
            ELSE ~res.set /\ res.text = ToString(Display(value, max))

\* NaN was committed in a field whose signal is 0.5, and the commit has set
\* the signal to NaN and the field's text to 0.
C38_Witness ==
    /\ FieldCommit /\ call.args[1] = "NaN" /\ call.args[2] = One \div 2
    /\ call.result.set /\ call.result.nan
    /\ call.result.text = "0"

\* Without its leading '#' the text is 6 or 8 hex digits.
SixOrEightDigits(str) ==
    LET d == trim_start_hash(str)
    IN  Len(d) \in {6, 8} /\ AllHex(d)

\* C39: while the user types in the hex field, a text that is 6 or 8 hex
\* digits after stripping '#' is forwarded to the hex signal in uppercase
\* when the keystroke effect runs; after a keystroke that leaves any other
\* text, a valid 3-digit shorthand included, the hex signal and the
\* canonical colour stay as they were until the next event.
C39_KeystrokeForwarding ==
    /\ [](ev.kind = "hex_type" /\ ~SixOrEightDigits(ev.val) =>
              hex = pre.hex /\ color = pre.color)
    /\ [][ev.kind = "hex_type" /\ Starts("text_hex") /\ SixOrEightDigits(text) =>
              hex' = to_uppercase(trim_start_hash(text))]_vars

\* The shorthand F08 was typed, the effects have run, the field holds F08,
\* which parses to a colour other than the canonical one, and hex signal
\* and colour are what they were before the keystroke.
C39_Witness ==
    /\ Settled /\ ev.kind = "hex_type" /\ ev.val = <<15, 0, 8>> /\ text = ev.val
    /\ from_hex(text) # None /\ from_hex(text) # color
    /\ hex = pre.hex /\ color = pre.color

\* The view a pointer event was sent to, the places of its thumb or cursor,
\* and the step that is the handling of an event.
ViewOf(w) == IF w = "wheel" THEN wheel ELSE sliders[w]
PlacesOf(w) ==
    IF w = "wheel" THEN {wheel.hue, wheel.saturation} ELSE {sliders[w].value}
EventStep == call' # call /\ call'.fn = "event_before_children"
DragStep ==
    \A w \in Views :
        call'.args[1] = w =>
            LET kind == call'.args[2].kind
                told == call'.result.on_change
            IN  /\ (kind = "PointerMove" /\ ~ViewOf(w).held)
                      => /\ UNCHANGED <<sliders, wheel>>
                         /\ told = <<>>
                /\ ViewOf(w)'.held =
                       (IF kind = "PointerDown" THEN TRUE
                        ELSE IF kind \in {"PointerUp", "FocusLost"} THEN FALSE
                        ELSE ViewOf(w).held)
                /\ \A i \in 1..Len(told) : \A j \in 1..Len(told[i]) :
                       told[i][j] \in 0..One
                /\ PlacesOf(w)' \subseteq 0..One

\* C40: a PointerMove sent to a view that is not held leaves the view as it
\* was and does not call on_change; a view is held exactly from a
\* PointerDown to the next PointerUp or FocusLost, whatever else happens to
\* it in between; and every value a pointer event stores or passes to
\* on_change is in [0, 1].
C40_PointerDrag ==
    [][ /\ EventStep => DragStep
        /\ ~EventStep => \A w \in Views : ViewOf(w)'.held = ViewOf(w).held ]_vars

\* A slider dragged to the middle and released ignores a move to its right end.
C40_Witness ==
    /\ call.fn = "event_before_children"
    /\ call.args = <<"brightness", [kind |-> "PointerMove", pos |-> <<107, 8>>]>>
    /\ call.result.on_change = <<>>
    /\ ~sliders["brightness"].held
    /\ sliders["brightness"].size = <<114, 16>>
    /\ sliders["brightness"].value = One \div 2

===========================================================================
